---- MODULE Spec2Model ----
(***************************************************************************)
(* LMS completion dashboard: directory merge, tenure classification,       *)
(* multi-select filter and completion-rate aggregation, as implemented by  *)
(* App.tsx, the Dashboard component and the chart components; the employee *)
(* rollups and performance tiers of Dashboard and EmployeeDashboard, the   *)
(* course status of the employee detail list, and the normalisation of a   *)
(* raw row on each ingestion path.                                         *)
(*                                                                         *)
(* Specifications: Spec (App and the overview), SpecTenure (the tenure     *)
(* classifiers), SpecRate (the rate of one accumulator entry),             *)
(* SpecEmployee (the tabbed dashboard over an employee with several        *)
(* records), SpecCourseDetail (the detail list), SpecIngest (one raw row   *)
(* through each ingestion path), SpecCsv (a CSV text through each parser), *)
(* SpecSort (the filters and the sort of EmployeeDashboard), SpecAutoLoad  *)
(* (DataPersistenceService.autoLoadData), SpecFetch and SpecFetchFair      *)
(* (fetchTrainingDataFromGitHub with its retries), SpecShell and           *)
(* SpecShellFair (App: overlapping loads, the admin session),              *)
(* SpecMultiSelect (MultiSelectFilter with a search text).                 *)
(*                                                                         *)
(* JavaScript values are represented as follows.                           *)
(*   - a string field is a TLA+ string; a field that is absent from the    *)
(*     object (reads as undefined) holds the token Undef;                  *)
(*   - a number that may be NaN is a record [nan, val];                    *)
(*   - an instant (Date.getTime()) is a record [nan, day, ms]: whole days  *)
(*     plus milliseconds within the day, so that 31 days of milliseconds   *)
(*     need no integer wider than 32 bits;                                 *)
(*   - a completion rate completed/total*100 is kept as the exact          *)
(*     fraction [num, den]; for the small counts used here two rates are   *)
(*     equal (ordered) as doubles iff they are equal (ordered) fractions.  *)
(***************************************************************************)
EXTENDS Integers, Sequences, FiniteSets, TLC

VARIABLES
    sourceRows,          \* rows of the file the data sources serve
    parsedData,          \* rows handed to the last load, before the merge
    data,                \* App state `data` (empty while it is null)
    hasData,             \* data !== null
    isMerged,            \* App state `isMerged`
    selectedTenure,      \* Dashboard state: the six selected-value arrays
    selectedStore,
    selectedAreaManager,
    selectedTrainer,
    selectedCourse,
    selectedDesignation,
    currentDate,         \* the instant `new Date()` returns
    dateOfJoining,       \* argument of the tenure classifier under test
    tenure,              \* labels returned by the six classifier copies
    activeTab,           \* TabbedDashboard state: the dashboard that is mounted
    counts,              \* total and completed of one accumulator entry
    completion_rate,     \* the rate the employee rollup keeps with that entry
    chartRates,          \* the rates the charts compute from that entry
    courseRecord,        \* the record whose course detail is shown
    selectedEmployeeDetail,  \* EmployeeDashboard state: that course's detail
    rawRow,              \* a raw row arriving at an ingestion path
    ingested,            \* what each ingestion path makes of that row
    csvText,             \* the lines of a CSV text handed to a parser
    parsed,              \* what the parser returned or threw
    employeeData,        \* EmployeeDashboard: the memoized rollup array
    filteredEmployees,   \* EmployeeDashboard: the memoized filtered, sorted list
    searchEmployee,      \* EmployeeDashboard state: the employee search text
    sortBy,              \* EmployeeDashboard state
    sortOrder,           \* EmployeeDashboard state
    github,              \* what the GitHub repository answers during a load
    localCSV,            \* what fetchTrainingDataFromGitHub does during a load
    localStorage,        \* the two keys of DataPersistenceService
    autoLoad,            \* DataPersistenceService.autoLoadData: position, result
    fetchRun,            \* fetchTrainingDataFromGitHub: position, attempts made, outcome
    isLoading,           \* App state `isLoading`
    loadsInFlight,       \* the runs of autoLoadData and loadCSVData that have not finished
    loadsStarted,        \* how many such runs were started
    theme,               \* App state `theme`
    error,               \* App state `error` (empty while it is null)
    dataSource,          \* App state `dataSource`
    fileName,            \* App state `fileName`
    isAdmin,             \* App state `isAdmin`
    showAdminPanel,      \* App state `showAdminPanel`
    adminKeys,           \* localStorage: adminSession and adminSessionExpiry
    dateNow,             \* what Date.now() returns, in units of twelve hours
    submits,             \* the runs of AdminLogin.handleSubmit that wait for their delay
    storeSearch,         \* Dashboard state `storeSearch`
    designationSearch    \* Dashboard state `designationSearch`

loadVars == <<parsedData, data, hasData, isMerged>>
selVars == <<selectedTenure, selectedStore, selectedAreaManager,
             selectedTrainer, selectedCourse, selectedDesignation>>
tenureVars == <<dateOfJoining, tenure>>
rateVars == <<counts, completion_rate, chartRates>>
\* what the dashboard operations leave alone
detailVars == <<courseRecord, selectedEmployeeDetail>>
ingestVars == <<rawRow, ingested>>
csvVars == <<csvText, parsed>>
sortVars == <<employeeData, filteredEmployees, searchEmployee, sortBy, sortOrder>>
persistVars == <<github, localCSV, localStorage, autoLoad>>
fetchVars == <<fetchRun>>
shellVars == <<isLoading, loadsInFlight, loadsStarted, theme, error, dataSource, fileName, isAdmin, showAdminPanel, adminKeys, dateNow, submits>>
searchVars == <<storeSearch, designationSearch>>
serviceVars == <<csvVars, sortVars, persistVars, fetchVars, shellVars, searchVars>>
otherVars == <<tenureVars, rateVars, detailVars, ingestVars, serviceVars>>
\* the state of App and of the dashboards
appVars == <<sourceRows, loadVars, selVars, currentDate, activeTab,
             tenureVars, rateVars, detailVars, ingestVars>>
vars == <<sourceRows, loadVars, selVars, currentDate, activeTab, otherVars>>

-----------------------------------------------------------------------------
(* Bounds of the model *)

MaxRows == 2          \* rows in a loaded file
MaxSelected == 2      \* selected values, over the six filters together
MaxDays == 33         \* days between joining and the evaluation day
MaxTotal == 10        \* records counted into one accumulator entry
MaxLines == 2         \* data lines of a CSV text
MaxLoads == 3         \* runs of autoLoadData and loadCSVData started
MaxNow == 3           \* units of twelve hours that pass
MaxSubmits == 2       \* runs of handleSubmit waiting at once

-----------------------------------------------------------------------------
(* JavaScript values *)

Undef == "<undefined>"

Falsy(v) == v = Undef \/ v = ""

\* v || d
OrElse(v, d) == IF Falsy(v) THEN d ELSE v

\* arr.includes(v)
includes(arr, v) == \E i \in 1..Len(arr) : arr[i] = v

Range(s) == {s[i] : i \in 1..Len(s)}

NaN == [nan |-> TRUE, val |-> 0]
Num(n) == [nan |-> FALSE, val |-> n]

\* a <= n on numbers: false whenever a is NaN
NumLeq(a, n) == ~a.nan /\ a.val <= n

InvalidDate == [nan |-> TRUE, day |-> 0, ms |-> 0]
Instant(d, m) == [nan |-> FALSE, day |-> d, ms |-> m]

MsPerDay == 1000 * 60 * 60 * 24

\* Math.floor((currentDate.getTime() - joinDate.getTime()) / (1000*60*60*24))
daysDiffOf(now, joinDate) ==
    IF now.nan \/ joinDate.nan
    THEN NaN
    ELSE Num((now.day - joinDate.day) + ((now.ms - joinDate.ms) \div MsPerDay))

-----------------------------------------------------------------------------
(* Tenure classification: one definition per copy in the source *)

\* an unparseable date read as "joined today"
Dashboard_calculateTenure_nanAsZero(doj, now) ==
    LET daysDiff == IF doj.nan THEN Num(0) ELSE daysDiffOf(now, doj)
    IN  IF NumLeq(daysDiff, 4) THEN "1-4 days"
        ELSE IF NumLeq(daysDiff, 15) THEN "5-15 days"
        ELSE IF NumLeq(daysDiff, 30) THEN "16-30 days"
        ELSE "over a month"

Dashboard_calculateTenure(doj, now) ==
    LET daysDiff == daysDiffOf(now, doj)
    IN  IF NumLeq(daysDiff, 4) THEN "1-4 days"
        ELSE IF NumLeq(daysDiff, 15) THEN "5-15 days"
        ELSE IF NumLeq(daysDiff, 30) THEN "16-30 days"
        ELSE "over a month"

EmployeeDashboard_calculateTenure(doj, now) ==
    LET daysDiff == daysDiffOf(now, doj)
    IN  IF NumLeq(daysDiff, 4) THEN "1-4 days"
        ELSE IF NumLeq(daysDiff, 15) THEN "5-15 days"
        ELSE IF NumLeq(daysDiff, 30) THEN "16-30 days"
        ELSE "over a month"

TenureCompletionChart_calculateTenure(doj, now) ==
    LET daysDiff == daysDiffOf(now, doj)
    IN  IF NumLeq(daysDiff, 4) THEN "1-4 days"
        ELSE IF NumLeq(daysDiff, 15) THEN "5-15 days"
        ELSE IF NumLeq(daysDiff, 30) THEN "16-30 days"
        ELSE "over a month"

TenureDistributionChart_calculateTenure(doj, now) ==
    LET daysDiff == daysDiffOf(now, doj)
    IN  IF NumLeq(daysDiff, 4) THEN "1-4 days"
        ELSE IF NumLeq(daysDiff, 15) THEN "5-15 days"
        ELSE IF NumLeq(daysDiff, 30) THEN "16-30 days"
        ELSE "over a month"

FilterSection_calculateTenure(doj, now) ==
    LET daysDiff == daysDiffOf(now, doj)
    IN  IF NumLeq(daysDiff, 4) THEN "1-4 days"
        ELSE IF NumLeq(daysDiff, 15) THEN "5-15 days"
        ELSE IF NumLeq(daysDiff, 30) THEN "16-30 days"
        ELSE "over a month"

\* the first boundary made exclusive
CompactFilter_calculateTenure_exclusive(doj, now) ==
    LET daysDiff == daysDiffOf(now, doj)
    IN  IF ~daysDiff.nan /\ daysDiff.val < 4 THEN "1-4 days"
        ELSE IF NumLeq(daysDiff, 15) THEN "5-15 days"
        ELSE IF NumLeq(daysDiff, 30) THEN "16-30 days"
        ELSE "over a month"

CompactFilter_calculateTenure(doj, now) ==
    LET daysDiff == daysDiffOf(now, doj)
    IN  IF NumLeq(daysDiff, 4) THEN "1-4 days"
        ELSE IF NumLeq(daysDiff, 15) THEN "5-15 days"
        ELSE IF NumLeq(daysDiff, 30) THEN "16-30 days"
        ELSE "over a month"

-----------------------------------------------------------------------------
(* The store directory and the rows a file can hold *)

\* The evaluation instant of the dashboard runs: noon of day MaxDays + 7.
Noon == MsPerDay \div 2
EvalInstant == Instant(MaxDays + 7, Noon)
JoinedDaysAgo(n) == Instant(MaxDays + 7 - n, Noon)

storeMappingData ==
    << [StoreID |-> "S1", location |-> "Store A", Region |-> "North",
        AM |-> "AM1", Trainer |-> "T1"],
       [StoreID |-> "S2", location |-> "Store B", Region |-> "South",
        AM |-> "TBD", Trainer |-> "T2"] >>

Row(code, name, dept, desig, course, status, doj, store) ==
    [employee_code |-> code, employee_name |-> name,
     department |-> dept, designation |-> desig,
     course_name |-> course,
     course_completion_status |-> status, date_of_joining |-> doj,
     StoreID |-> store,
     location |-> Undef, Region |-> Undef, AM |-> Undef, Trainer |-> Undef]

\* Rows of a file with a 'Store ID' column.
FileRows ==
    { Row("E1", "Zoe", "Ops", "Clerk", "C1", "Not Completed", JoinedDaysAgo(4), "S1"),
      Row("E2", "Amy", "Ops", "Clerk", "101", "Completed", JoinedDaysAgo(31), "S2"),
      Row("E3", "", "", "", "", "Completed", InvalidDate, "S9") }

RECURSIVE SeqsUpTo(_, _)
SeqsUpTo(S, n) ==
    IF n = 0 THEN {<<>>}
    ELSE LET shorter == SeqsUpTo(S, n - 1)
         IN  shorter \cup {Append(s, x) : s \in shorter, x \in S}

Files == SeqsUpTo(FileRows, MaxRows)

\* The same rows read from a file that has no 'Store ID' column.
WithoutStoreId(rows) == [i \in 1..Len(rows) |-> [rows[i] EXCEPT !.StoreID = Undef]]

-----------------------------------------------------------------------------
(* Directory merge *)

\* The result of storeMap.get: found = FALSE stands for undefined.
NoStoreInfo ==
    [found |-> FALSE, location |-> Undef, Region |-> Undef,
     AM |-> Undef, Trainer |-> Undef]

\* new Map(entries).get(id): the last entry with that key, or undefined
storeMapGet(directory, id) ==
    LET hits == {i \in 1..Len(directory) : directory[i].StoreID = id}
    IN  IF hits = {} THEN NoStoreInfo
        ELSE LET s == directory[CHOOSE i \in hits : \A j \in hits : j <= i]
             IN  [found |-> TRUE, location |-> s.location, Region |-> s.Region,
                  AM |-> s.AM, Trainer |-> s.Trainer]

\* emp['Store ID'] ? storeMap.get(emp['Store ID']) : undefined
storeInfoOf(directory, emp) ==
    IF Falsy(emp.StoreID) THEN NoStoreInfo ELSE storeMapGet(directory, emp.StoreID)

\* { ...emp, ...storeInfo }: spreading undefined adds nothing
SpreadStoreInfo(emp, storeInfo) ==
    IF ~storeInfo.found THEN emp
    ELSE [emp EXCEPT !.location = storeInfo.location, !.Region = storeInfo.Region,
                     !.AM = storeInfo.AM, !.Trainer = storeInfo.Trainer]

\* an inner join: rows without a directory entry are dropped
mergeWithStoreData_innerJoin(rows) ==
    LET matched == SelectSeq(rows, LAMBDA emp : storeInfoOf(storeMappingData, emp).found)
    IN  [i \in 1..Len(matched) |->
            SpreadStoreInfo(matched[i], storeInfoOf(storeMappingData, matched[i]))]

mergeWithStoreData(rows) ==
    [i \in 1..Len(rows) |->
        SpreadStoreInfo(rows[i], storeInfoOf(storeMappingData, rows[i]))]

\* the merge written out again inside loadCSVData
loadCSVData_mergedData(rows) ==
    [i \in 1..Len(rows) |->
        SpreadStoreInfo(rows[i], storeInfoOf(storeMappingData, rows[i]))]

\* the Sheets merge as an inner join
Sheets_mergedData_innerJoin(rows, storeData) ==
    LET matched == SelectSeq(rows, LAMBDA emp : storeInfoOf(storeData, emp).found)
    IN  [i \in 1..Len(matched) |->
            SpreadStoreInfo(matched[i], storeInfoOf(storeData, matched[i]))]

\* the merge of fetchTrainingDataFromSheets, against the fetched directory
Sheets_mergedData(rows, storeData) ==
    [i \in 1..Len(rows) |->
        SpreadStoreInfo(rows[i], storeInfoOf(storeData, rows[i]))]

-----------------------------------------------------------------------------
(* Dashboard: filter options and the filter *)

TenureOptions == {"1-4 days", "5-15 days", "16-30 days", "over a month"}

\* The option lists are used as sets here: their .sort() order and the search
\* text only change which options are listed, not what a toggle does.
uniqueStores == {storeMappingData[i].location : i \in 1..Len(storeMappingData)}
uniqueAreaManagers ==
    {storeMappingData[i].AM : i \in 1..Len(storeMappingData)} \ {"TBD"}
uniqueTrainers ==
    {storeMappingData[i].Trainer : i \in 1..Len(storeMappingData)} \ {"TBD"}
uniqueCourses == {OrElse(data[i].course_name, "Unknown") : i \in 1..Len(data)}
uniqueDesignations == {OrElse(data[i].designation, "Unknown") : i \in 1..Len(data)}

\* Values a selected-value array can hold. For the three directory
\* dimensions the filter is also exercised with the "Unknown" category, the
\* option MultiSelectFilter.getItemCount counts rows without a value under.
SelectableValues(dim) ==
    CASE dim = "tenure" -> TenureOptions
      [] dim = "store" -> uniqueStores \cup {"Unknown"}
      [] dim = "areaManager" -> uniqueAreaManagers \cup {"Unknown"}
      [] dim = "trainer" -> uniqueTrainers \cup {"Unknown"}
      [] dim = "course" -> uniqueCourses
      [] dim = "designation" -> uniqueDesignations

Dimensions == {"tenure", "store", "areaManager", "trainer", "course", "designation"}
DirectoryDimensions == {"store", "areaManager", "trainer"}

Selected(dim) ==
    CASE dim = "tenure" -> selectedTenure
      [] dim = "store" -> selectedStore
      [] dim = "areaManager" -> selectedAreaManager
      [] dim = "trainer" -> selectedTrainer
      [] dim = "course" -> selectedCourse
      [] dim = "designation" -> selectedDesignation

\* the callback with the designation check left out
filteredData_keeps_noDesignation(item) ==
    IF Len(selectedTenure) > 0
       /\ ~includes(selectedTenure,
                    Dashboard_calculateTenure(item.date_of_joining, currentDate))
    THEN FALSE
    ELSE IF Len(selectedStore) > 0
            /\ ~includes(selectedStore,
                         IF isMerged THEN item.location ELSE "Unknown")
    THEN FALSE
    ELSE IF Len(selectedAreaManager) > 0
            /\ ~includes(selectedAreaManager,
                         IF isMerged THEN item.AM ELSE "Unknown")
    THEN FALSE
    ELSE IF Len(selectedTrainer) > 0
            /\ ~includes(selectedTrainer,
                         IF isMerged THEN item.Trainer ELSE "Unknown")
    THEN FALSE
    ELSE IF Len(selectedCourse) > 0
            /\ ~includes(selectedCourse, OrElse(item.course_name, "Unknown"))
    THEN FALSE
    ELSE TRUE

\* the callback with the course check made without its length guard, so that
\* an empty course selection matches nothing
filteredData_keeps_emptyMatchesNothing(item) ==
    IF Len(selectedTenure) > 0
       /\ ~includes(selectedTenure,
                    Dashboard_calculateTenure(item.date_of_joining, currentDate))
    THEN FALSE
    ELSE IF Len(selectedStore) > 0
            /\ ~includes(selectedStore,
                         IF isMerged THEN item.location ELSE "Unknown")
    THEN FALSE
    ELSE IF Len(selectedAreaManager) > 0
            /\ ~includes(selectedAreaManager,
                         IF isMerged THEN item.AM ELSE "Unknown")
    THEN FALSE
    ELSE IF Len(selectedTrainer) > 0
            /\ ~includes(selectedTrainer,
                         IF isMerged THEN item.Trainer ELSE "Unknown")
    THEN FALSE
    ELSE IF ~includes(selectedCourse, OrElse(item.course_name, "Unknown"))
    THEN FALSE
    ELSE IF Len(selectedDesignation) > 0
            /\ ~includes(selectedDesignation, OrElse(item.designation, "Unknown"))
    THEN FALSE
    ELSE TRUE

\* The callback of data.filter in filteredData, early returns in order.
filteredData_keeps(item) ==
    IF Len(selectedTenure) > 0
       /\ ~includes(selectedTenure,
                    Dashboard_calculateTenure(item.date_of_joining, currentDate))
    THEN FALSE
    ELSE IF Len(selectedStore) > 0
            /\ ~includes(selectedStore,
                         IF isMerged THEN item.location ELSE "Unknown")
    THEN FALSE
    ELSE IF Len(selectedAreaManager) > 0
            /\ ~includes(selectedAreaManager,
                         IF isMerged THEN item.AM ELSE "Unknown")
    THEN FALSE
    ELSE IF Len(selectedTrainer) > 0
            /\ ~includes(selectedTrainer,
                         IF isMerged THEN item.Trainer ELSE "Unknown")
    THEN FALSE
    ELSE IF Len(selectedCourse) > 0
            /\ ~includes(selectedCourse, OrElse(item.course_name, "Unknown"))
    THEN FALSE
    ELSE IF Len(selectedDesignation) > 0
            /\ ~includes(selectedDesignation, OrElse(item.designation, "Unknown"))
    THEN FALSE
    ELSE TRUE

filteredData == SelectSeq(data, filteredData_keeps)

-----------------------------------------------------------------------------
(* Aggregation: the accumulator object, Object.keys, the stable sort *)

\* An accumulator object is the sequence of its properties in insertion
\* order, each [name, total, completed].
HasKey(acc, k) == \E i \in 1..Len(acc) : acc[i].name = k

IndexOfKey(acc, k) == CHOOSE i \in 1..Len(acc) : acc[i].name = k

\* the callback counting a completed record twice
CountRecord_completedTwice(acc, k, record) ==
    LET withKey == IF HasKey(acc, k) THEN acc
                   ELSE Append(acc, [name |-> k, total |-> 0, completed |-> 0])
        i == IndexOfKey(withKey, k)
        isCompleted == record.course_completion_status = "Completed"
    IN  [withKey EXCEPT ![i].total = @ + 1,
                        ![i].completed = IF isCompleted THEN @ + 2 ELSE @]

\* One step of the reduce callback: create the bucket if the key has none,
\* count the record, count it as completed when its status is 'Completed'.
CountRecord(acc, k, record) ==
    LET withKey == IF HasKey(acc, k) THEN acc
                   ELSE Append(acc, [name |-> k, total |-> 0, completed |-> 0])
        i == IndexOfKey(withKey, k)
        isCompleted == record.course_completion_status = "Completed"
    IN  [withKey EXCEPT ![i].total = @ + 1,
                        ![i].completed = IF isCompleted THEN @ + 1 ELSE @]

RECURSIVE GroupCountsFrom(_, _, _, _)
GroupCountsFrom(acc, keys, records, i) ==
    IF i > Len(records) THEN acc
    ELSE GroupCountsFrom(CountRecord(acc, keys[i], records[i]), keys, records, i + 1)

\* records.reduce(callback, {}) with keys[i] the grouping key of records[i]
GroupCounts(keys, records) == GroupCountsFrom(<<>>, keys, records, 1)

\* Property names that are array indices, with their numeric value; every
\* other name has value -1. Object.keys lists array indices first, ascending.
ArrayIndexValue(k) == IF k = "101" THEN 101 ELSE -1

IsArrayIndex(k) == ArrayIndexValue(k) >= 0

\* Array.prototype.sort with a comparator that is a strict weak order; goesFirst
\* holds the comparator's verdicts, goesFirst[i][j] meaning that seq[i] is to go
\* before seq[j]. The sort is stable (ES2019), so an element goes after the
\* elements that are to go before it and after the earlier elements that
\* compare equal to it.
StableSort(seq, goesFirst) ==
    LET n == Len(seq)
        tied(i, j) == ~goesFirst[i][j] /\ ~goesFirst[j][i]
        rank(i) == Cardinality({j \in 1..n : goesFirst[j][i]})
                   + Cardinality({j \in 1..(i - 1) : tied(i, j)}) + 1
    IN  [p \in 1..n |-> seq[CHOOSE i \in 1..n : rank(i) = p]]

\* Object.keys(acc) as the sequence of the properties in enumeration order
ObjectKeys(acc) ==
    LET indices == SelectSeq(acc, LAMBDA e : IsArrayIndex(e.name))
        others == SelectSeq(acc, LAMBDA e : ~IsArrayIndex(e.name))
        ascending == [i \in 1..Len(indices) |-> [j \in 1..Len(indices) |->
                        ArrayIndexValue(indices[i].name)
                          < ArrayIndexValue(indices[j].name)]]
    IN  StableSort(indices, ascending) \o others

\* (completed / total) * 100; 0 / 0 is NaN
RateOf(completed, total) ==
    IF total = 0 THEN [nan |-> TRUE, num |-> 0, den |-> 1]
    ELSE [nan |-> FALSE, num |-> completed * 100, den |-> total]

ZeroRate == [nan |-> FALSE, num |-> 0, den |-> 1]

RateLess(a, b) == ~a.nan /\ ~b.nan /\ a.num * b.den < b.num * a.den

\* the comparator (a, b) => b[rate] - a[rate] over a list: a goes first when
\* the result is negative; a NaN result orders nothing
HigherRateFirst(list) ==
    [i \in 1..Len(list) |-> [j \in 1..Len(list) |->
        RateLess(list[j].rate, list[i].rate)]]

\* the Object.keys(...).map(...) of the charts that keep the name and the rate
NameAndRate(keys) ==
    [i \in 1..Len(keys) |->
        [name |-> keys[i].name, rate |-> RateOf(keys[i].completed, keys[i].total)]]

\* the map of the charts that keep the counts as well
NameRateAndCounts(keys) ==
    [i \in 1..Len(keys) |->
        [name |-> keys[i].name, rate |-> RateOf(keys[i].completed, keys[i].total),
         total |-> keys[i].total, completed |-> keys[i].completed]]

-----------------------------------------------------------------------------
(* The charts of the Dashboard, each rendered with data = filteredData *)

RegionCompletionChart_regionData ==
    LET records == filteredData
    IN  GroupCounts([i \in 1..Len(records) |-> OrElse(records[i].Region, "Unknown")],
                    records)

\* the list sorted by ascending rate
RegionCompletionChart_chartData_ascending ==
    LET list == NameAndRate(ObjectKeys(RegionCompletionChart_regionData))
    IN  StableSort(list, [i \in 1..Len(list) |-> [j \in 1..Len(list) |->
                             RateLess(list[i].rate, list[j].rate)]])

RegionCompletionChart_chartData ==
    LET list == NameAndRate(ObjectKeys(RegionCompletionChart_regionData))
    IN  StableSort(list, HigherRateFirst(list))

TrainerCompletionChart_trainerData ==
    LET records == filteredData
    IN  GroupCounts([i \in 1..Len(records) |-> OrElse(records[i].Trainer, "Unknown")],
                    records)

TrainerCompletionChart_chartData ==
    LET list == NameAndRate(ObjectKeys(TrainerCompletionChart_trainerData))
    IN  StableSort(list, HigherRateFirst(list))

AreaManagerCompletionChart_amData ==
    LET records == filteredData
    IN  GroupCounts([i \in 1..Len(records) |-> OrElse(records[i].AM, "Unknown")],
                    records)

AreaManagerCompletionChart_chartData ==
    LET list == NameAndRate(ObjectKeys(AreaManagerCompletionChart_amData))
    IN  StableSort(list, HigherRateFirst(list))

StoreCompletionChart_storeData ==
    LET records == filteredData
    IN  GroupCounts([i \in 1..Len(records) |-> OrElse(records[i].location, "Unknown")],
                    records)

StoreCompletionChart_chartData ==
    LET list == NameAndRate(ObjectKeys(StoreCompletionChart_storeData))
    IN  StableSort(list, HigherRateFirst(list))

CourseCompletionChart_courseData ==
    LET records == filteredData
    IN  GroupCounts([i \in 1..Len(records) |-> OrElse(records[i].course_name, "N/A")],
                    records)

CourseCompletionChart_chartData ==
    LET list == NameAndRate(ObjectKeys(CourseCompletionChart_courseData))
    IN  StableSort(list, HigherRateFirst(list))

DepartmentCompletionChart_departmentData ==
    LET records == filteredData
    IN  GroupCounts([i \in 1..Len(records) |-> OrElse(records[i].department, "N/A")],
                    records)

DepartmentCompletionChart_chartData ==
    LET list == NameRateAndCounts(ObjectKeys(DepartmentCompletionChart_departmentData))
    IN  StableSort(list, HigherRateFirst(list))

DesignationCompletionChart_designationStats ==
    LET records == filteredData
    IN  GroupCounts([i \in 1..Len(records) |-> OrElse(records[i].designation, "Unknown")],
                    records)

\* Object.entries enumerates in the order of Object.keys; `percentage` is the
\* rate of this chart.
DesignationCompletionChart_chartData ==
    LET list == NameRateAndCounts(ObjectKeys(DesignationCompletionChart_designationStats))
    IN  StableSort(list, HigherRateFirst(list))

\* order.indexOf(name), zero-based; -1 when the name is not in the list
TenureOrderIndex(name) ==
    CASE name = "1-4 days" -> 0
      [] name = "5-15 days" -> 1
      [] name = "16-30 days" -> 2
      [] name = "over a month" -> 3
      [] OTHER -> -1

\* the comparator order.indexOf(a.name) - order.indexOf(b.name) over a list
TenureOrderFirst(list) ==
    [i \in 1..Len(list) |-> [j \in 1..Len(list) |->
        TenureOrderIndex(list[i].name) < TenureOrderIndex(list[j].name)]]

\* tenureData[tenure].total > 0 ? (completed / total) * 100 : 0
GuardedRateOf(completed, total) ==
    IF total > 0 THEN RateOf(completed, total) ELSE ZeroRate

\* the map of the two tenure charts
NameGuardedRateAndCounts(keys) ==
    [i \in 1..Len(keys) |->
        [name |-> keys[i].name,
         rate |-> GuardedRateOf(keys[i].completed, keys[i].total),
         total |-> keys[i].total, completed |-> keys[i].completed]]

\* the reduce run over the records with a parseable joining date only
TenureCompletionChart_tenureData_parseableOnly ==
    LET parseable == SelectSeq(filteredData, LAMBDA r : ~r.date_of_joining.nan)
    IN  GroupCounts(
            [i \in 1..Len(parseable) |->
                TenureCompletionChart_calculateTenure(parseable[i].date_of_joining,
                                                      currentDate)],
            parseable)

TenureCompletionChart_tenureData ==
    LET records == filteredData
    IN  GroupCounts(
            [i \in 1..Len(records) |->
                TenureCompletionChart_calculateTenure(records[i].date_of_joining, currentDate)],
            records)

TenureCompletionChart_chartData ==
    LET list == NameGuardedRateAndCounts(ObjectKeys(TenureCompletionChart_tenureData))
    IN  StableSort(list, TenureOrderFirst(list))

\* The set of employee codes kept per bucket only feeds the bar colour and
\* the 'Unique Employees' figure; the counts are those of the other charts.
TenureDistributionChart_tenureData ==
    LET records == filteredData
    IN  GroupCounts(
            [i \in 1..Len(records) |->
                TenureDistributionChart_calculateTenure(records[i].date_of_joining, currentDate)],
            records)

TenureDistributionChart_chartData ==
    LET list == NameGuardedRateAndCounts(ObjectKeys(TenureDistributionChart_tenureData))
    IN  StableSort(list, TenureOrderFirst(list))

-----------------------------------------------------------------------------
(* The rate computations on their own: one accumulator entry, counted up *)
(* record by record                                                      *)

\* Math.round(x) for x = num / den >= 0: the nearest integer, a half going up.
\* For the counts used here (completed / total) * 100 is a half only when
\* total is 8, where the double arithmetic is exact.
MathRound(num, den) == (2 * num + den) \div (2 * den)

\* Math.round((completed / total) * 100) truncated instead of rounded
Dashboard_completion_rate_truncated(completed, total) ==
    IF total = 0 THEN NaN ELSE Num((completed * 100) \div total)

\* Math.round((emp.completed_courses / emp.total_courses) * 100)
Dashboard_completion_rate(completed, total) ==
    IF total = 0 THEN NaN ELSE Num(MathRound(completed * 100, total))

\* Math.round((emp.completedCourses / emp.totalCourses) * 100)
EmployeeDashboard_completionRate(completed, total) ==
    IF total = 0 THEN NaN ELSE Num(MathRound(completed * 100, total))

\* CompletionRateCard: the division is made for a non-empty list only, and a
\* result that is NaN or infinite is replaced by 0.
CompletionRateCard_safeCompletionRate(completedCount, length) ==
    LET completionRate == IF length > 0 THEN RateOf(completedCount, length)
                          ELSE ZeroRate
    IN  IF completionRate.nan THEN ZeroRate ELSE completionRate

NoRates ==
    [computed |-> FALSE,
     Region |-> ZeroRate, Trainer |-> ZeroRate, AreaManager |-> ZeroRate,
     Store |-> ZeroRate, Course |-> ZeroRate, Department |-> ZeroRate,
     Designation |-> ZeroRate, Tenure |-> ZeroRate,
     TenureDistribution |-> ZeroRate, CompletionRateCard |-> ZeroRate]

\* a new entry: { total: 0, completed: 0 }, completion_rate: 0
RateIdle ==
    /\ counts = [total |-> 0, completed |-> 0]
    /\ completion_rate = [Dashboard |-> Num(0), EmployeeDashboard |-> Num(0)]
    /\ chartRates = NoRates

\* selectedEmployeeDetail null and isModalOpen false
DetailIdle ==
    /\ courseRecord = Undef
    /\ selectedEmployeeDetail = [isModalOpen |-> FALSE]

IngestIdle ==
    /\ rawRow = Undef
    /\ ingested = [done |-> FALSE]

CsvIdle ==
    /\ csvText = <<>>
    /\ parsed = [done |-> FALSE]

\* EmployeeDashboard not mounted
SortIdle ==
    /\ employeeData = <<>>
    /\ filteredEmployees = <<>>
    /\ searchEmployee = ""
    /\ sortBy = "name"
    /\ sortOrder = "asc"

\* DataPersistenceService.autoLoadData not called, nothing stored
PersistIdle ==
    /\ github = [configured |-> FALSE]
    /\ localCSV = "throws"
    /\ localStorage = [lms_training_data |-> [kind |-> "absent"],
                       lms_data_metadata |-> [kind |-> "absent"]]
    /\ autoLoad = [at |-> "idle"]

\* fetchTrainingDataFromGitHub not called
FetchIdle ==
    /\ fetchRun = [status |-> "idle"]

\* App as constructed, its effect not yet run
ShellIdle ==
    /\ isLoading = TRUE
    /\ loadsInFlight = <<>>
    /\ loadsStarted = 0
    /\ theme = "light"
    /\ error = ""
    /\ dataSource = "none"
    /\ fileName = "Local CSV Data"
    /\ isAdmin = FALSE
    /\ showAdminPanel = FALSE
    /\ adminKeys = [adminSession |-> "absent",
                    adminSessionExpiry |-> [kind |-> "absent", ms |-> 0]]
    /\ dateNow = 0
    /\ submits = <<>>

\* the search fields of the filters are empty
SearchIdle ==
    /\ storeSearch = ""
    /\ designationSearch = ""

\* the services and components that are not running
ServicesIdle ==
    /\ CsvIdle
    /\ SortIdle
    /\ PersistIdle
    /\ FetchIdle
    /\ ShellIdle
    /\ SearchIdle

-----------------------------------------------------------------------------
(* The insight summary, made by GeminiInsights with data = filteredData *)

\* the decimal digits of n (0..100), as UTF-16 code units
DigitCodes(n) ==
    IF n < 10 THEN <<48 + n>>
    ELSE IF n < 100 THEN <<48 + (n \div 10), 48 + (n % 10)>>
    ELSE <<49, 48, 48>>

\* rate.toFixed(1) + '%' as the sequence of its code units
toFixed1Percent(rate) ==
    LET tenths == MathRound(rate.num * 10, rate.den)
    IN  DigitCodes(tenths \div 10) \o <<46, 48 + (tenths % 10), 37>>

\* a.localeCompare(b) on such strings: they differ first at two digits or at
\* a digit and the '.', which every collation orders as the code units do
localeCompare(a, b) ==
    LET differ == {k \in 1..Len(a) : k > Len(b) \/ a[k] # b[k]}
        k == CHOOSE d \in differ : \A e \in differ : d <= e
    IN  IF a = b THEN 0
        ELSE IF differ = {} THEN -1
        ELSE IF k > Len(b) THEN 1
        ELSE IF a[k] < b[k] THEN -1 ELSE 1

\* [...new Set(data.map(d => d[field]))].filter(Boolean): the distinct values
\* in the order of their first record, the falsy ones left out
create_summary_values(field) ==
    LET records == filteredData
        firsts == SelectSeq([i \in 1..Len(records) |-> i],
                            LAMBDA i : /\ ~Falsy(records[i][field])
                                       /\ \A j \in 1..(i - 1) :
                                             records[j][field] # records[i][field])
    IN  [p \in 1..Len(firsts) |-> records[firsts[p]][field]]

\* departmentCompletion, regionCompletion, trainerCompletion, amCompletion
create_summary_completion(field) ==
    LET values == create_summary_values(field)
    IN  [p \in 1..Len(values) |->
            LET fieldRecords == SelectSeq(filteredData,
                                          LAMBDA d : d[field] = values[p])
                fieldCompleted ==
                   Len(SelectSeq(fieldRecords,
                                 LAMBDA d : d.course_completion_status = "Completed"))
                fieldRate == IF Len(fieldRecords) > 0
                             THEN RateOf(fieldCompleted, Len(fieldRecords))
                             ELSE ZeroRate
            IN  [name |-> values[p], completionRate |-> toFixed1Percent(fieldRate),
                 total |-> Len(fieldRecords)]]

\* list.sort((a,b) => b.completionRate.localeCompare(a.completionRate))
create_summary_sorted(list) ==
    StableSort(list, [i \in 1..Len(list) |-> [j \in 1..Len(list) |->
                        localeCompare(list[j].completionRate,
                                      list[i].completionRate) < 0]])

\* _create_summary(filteredData, isMerged): the four performance lists (the
\* three directory lists are made for merged data only)
create_summary ==
    [departmentPerformance |->
        create_summary_sorted(create_summary_completion("department")),
     regionPerformance |->
        IF isMerged THEN create_summary_sorted(create_summary_completion("Region"))
        ELSE <<>>,
     trainerEffectiveness |->
        IF isMerged THEN create_summary_sorted(create_summary_completion("Trainer"))
        ELSE <<>>,
     areaManagerPerformance |->
        IF isMerged THEN create_summary_sorted(create_summary_completion("AM"))
        ELSE <<>>]

-----------------------------------------------------------------------------
(* Employee rollups: the overview's and the employee dashboard's *)

\* String.prototype.toLowerCase, on the names that occur
toLowerCase(s) ==
    CASE s = "Zoe" -> "zoe"
      [] s = "Amy" -> "amy"
      [] s = "Unknown" -> "unknown"
      [] s = "Clerk" -> "clerk"
      [] s = "Lead" -> "lead"
      [] s = "E1" -> "e1"
      [] s = "E2" -> "e2"
      [] OTHER -> s

\* a < b on the lower-cased names that occur: their place in code unit order
StringLess(a, b) ==
    LET order == <<"amy", "clerk", "lead", "unknown", "zoe">>
    IN  \E i, j \in 1..Len(order) :
            /\ order[i] = a
            /\ order[j] = b
            /\ i < j

\* employeeMap.has(empCode) on the Map's entries in insertion order
employeeMapHas(employeeMap, empCode) ==
    \E i \in 1..Len(employeeMap) : employeeMap[i].employee_code = empCode

employeeMapIndex(employeeMap, empCode) ==
    CHOOSE i \in 1..Len(employeeMap) : employeeMap[i].employee_code = empCode

\* every record taken as completed
Dashboard_statusOf_alwaysCompleted(item) == "Completed"

\* item.course_completion_status || item.completion_status: the records
\* carry no completion_status field
Dashboard_statusOf(item) == OrElse(item.course_completion_status, Undef)

\* the callback pushing the course of a completed record only
Dashboard_forEachItem_completedOnly(employeeMap, item) ==
    LET empCode == item.employee_code
        withEntry ==
           IF employeeMapHas(employeeMap, empCode) THEN employeeMap
           ELSE Append(employeeMap,
                       [employee_code |-> empCode,
                        employee_name |-> item.employee_name,
                        designation |-> item.designation,
                        total_courses |-> 0,
                        completed_courses |-> 0,
                        completion_rate |-> Num(0),
                        courses |-> <<>>])
        k == employeeMapIndex(withEntry, empCode)
        emp == withEntry[k]
        total == emp.total_courses + 1
        isCompleted == Dashboard_statusOf(item) = "Completed"
        completed == IF isCompleted THEN emp.completed_courses + 1
                     ELSE emp.completed_courses
        course == [course_name |-> item.course_name,
                   completion_status |-> Dashboard_statusOf(item)]
    IN  [withEntry EXCEPT ![k] =
           [emp EXCEPT
              !.total_courses = total,
              !.courses = IF isCompleted THEN Append(@, course) ELSE @,
              !.completed_courses = completed,
              !.completion_rate = Dashboard_completion_rate(completed, total)]]

\* Dashboard.employeeCompletionRates, the forEach callback: create the entry
\* on the employee's first record, count the record, push its course, count
\* it as completed when its status is 'Completed', recompute the rate.
Dashboard_forEachItem(employeeMap, item) ==
    LET empCode == item.employee_code
        withEntry ==
           IF employeeMapHas(employeeMap, empCode) THEN employeeMap
           ELSE Append(employeeMap,
                       [employee_code |-> empCode,
                        employee_name |-> item.employee_name,
                        designation |-> item.designation,
                        total_courses |-> 0,
                        completed_courses |-> 0,
                        completion_rate |-> Num(0),
                        courses |-> <<>>])
        k == employeeMapIndex(withEntry, empCode)
        emp == withEntry[k]
        total == emp.total_courses + 1
        completed == IF Dashboard_statusOf(item) = "Completed"
                     THEN emp.completed_courses + 1
                     ELSE emp.completed_courses
    IN  [withEntry EXCEPT ![k] =
           [emp EXCEPT
              !.total_courses = total,
              !.courses = Append(@, [course_name |-> item.course_name,
                                     completion_status |-> Dashboard_statusOf(item)]),
              !.completed_courses = completed,
              !.completion_rate = Dashboard_completion_rate(completed, total)]]

\* the Map after the forEach has gone through the first n records
RECURSIVE Dashboard_employeeMap(_, _)
Dashboard_employeeMap(records, n) ==
    IF n = 0 THEN <<>>
    ELSE Dashboard_forEachItem(Dashboard_employeeMap(records, n - 1), records[n])

\* Array.from(employeeMap.values()) over filteredData
Dashboard_employeeCompletionRates ==
    LET records == filteredData
    IN  Dashboard_employeeMap(records, Len(records))

\* a >= n and a < n on numbers: false whenever a is NaN
NumGeq(a, n) == ~a.nan /\ a.val >= n
NumLess(a, n) == ~a.nan /\ a.val < n

\* emp.completion_rate > 60 && emp.completion_rate < 80
Dashboard_isAveragePerformer_above60(rate) == NumGeq(rate, 61) /\ NumLess(rate, 80)

\* the callbacks of the three tier filters
Dashboard_isHighPerformer(rate) == NumGeq(rate, 80)
Dashboard_isAveragePerformer(rate) == NumGeq(rate, 60) /\ NumLess(rate, 80)
Dashboard_isNeedsAttention(rate) == NumLess(rate, 60)

Dashboard_highPerformers ==
    SelectSeq(Dashboard_employeeCompletionRates,
              LAMBDA emp : Dashboard_isHighPerformer(emp.completion_rate))

Dashboard_averagePerformers ==
    SelectSeq(Dashboard_employeeCompletionRates,
              LAMBDA emp : Dashboard_isAveragePerformer(emp.completion_rate))

Dashboard_needsAttention ==
    SelectSeq(Dashboard_employeeCompletionRates,
              LAMBDA emp : Dashboard_isNeedsAttention(emp.completion_rate))

\* EmployeeDashboard.employeeData, the forEach callback over data; the
\* employee's own fields are those of the first of its records
EmployeeDashboard_forEachRecord(employeeMap, record) ==
    LET empCode == record.employee_code
        withEntry ==
           IF employeeMapHas(employeeMap, empCode) THEN employeeMap
           ELSE Append(employeeMap,
                       [employee_code |-> empCode,
                        employee_name |-> OrElse(record.employee_name, "Unknown"),
                        designation |-> OrElse(record.designation, "Unknown"),
                        date_of_joining |-> record.date_of_joining,
                        location |-> IF isMerged THEN record.location ELSE "Unknown",
                        trainer |-> IF isMerged THEN record.Trainer ELSE "Unknown",
                        areaManager |-> IF isMerged THEN record.AM ELSE "Unknown",
                        tenure |-> EmployeeDashboard_calculateTenure(
                                       record.date_of_joining, currentDate),
                        courses |-> <<>>,
                        totalCourses |-> 0,
                        completedCourses |-> 0,
                        completionRate |-> Num(0)])
        k == employeeMapIndex(withEntry, empCode)
        emp == withEntry[k]
        total == emp.totalCourses + 1
        completed == IF record.course_completion_status = "Completed"
                     THEN emp.completedCourses + 1
                     ELSE emp.completedCourses
    IN  [withEntry EXCEPT ![k] =
           [emp EXCEPT
              !.courses = Append(@, [course_name |-> OrElse(record.course_name, "Unknown"),
                                     completion_status |-> record.course_completion_status]),
              !.totalCourses = total,
              !.completedCourses = completed,
              !.completionRate = EmployeeDashboard_completionRate(completed, total)]]

RECURSIVE EmployeeDashboard_employeeMap(_, _)
EmployeeDashboard_employeeMap(records, n) ==
    IF n = 0 THEN <<>>
    ELSE EmployeeDashboard_forEachRecord(
             EmployeeDashboard_employeeMap(records, n - 1), records[n])

EmployeeDashboard_employeeData == EmployeeDashboard_employeeMap(data, Len(data))

\* EmployeeDashboard.filteredEmployees, its chain of filters: the six
\* selected-value arrays of the mounted dashboard, the search text empty
EmployeeDashboard_keeps(emp) ==
    /\ (Len(selectedStore) > 0 /\ isMerged) => includes(selectedStore, emp.location)
    /\ (Len(selectedAreaManager) > 0 /\ isMerged) =>
          includes(selectedAreaManager, emp.areaManager)
    /\ (Len(selectedTrainer) > 0 /\ isMerged) => includes(selectedTrainer, emp.trainer)
    /\ Len(selectedDesignation) > 0 => includes(selectedDesignation, emp.designation)
    /\ Len(selectedTenure) > 0 => includes(selectedTenure, emp.tenure)
    /\ Len(selectedCourse) > 0 =>
          \E i \in 1..Len(emp.courses) :
              includes(selectedCourse, emp.courses[i].course_name)

\* the comparator of filtered.sort for sortBy 'name', sortOrder 'asc'
NameAscending(list) ==
    [i \in 1..Len(list) |-> [j \in 1..Len(list) |->
        StringLess(toLowerCase(list[i].employee_name),
                   toLowerCase(list[j].employee_name))]]

EmployeeDashboard_filteredEmployees ==
    LET filtered == SelectSeq(EmployeeDashboard_employeeData, EmployeeDashboard_keeps)
    IN  StableSort(filtered, NameAscending(filtered))

EmployeeDashboard_isHighPerformer(rate) == NumGeq(rate, 80)
EmployeeDashboard_isAveragePerformer(rate) == NumGeq(rate, 60) /\ NumLess(rate, 80)
EmployeeDashboard_isNeedsAttention(rate) == NumLess(rate, 60)

EmployeeDashboard_highPerformers ==
    SelectSeq(EmployeeDashboard_filteredEmployees,
              LAMBDA emp : EmployeeDashboard_isHighPerformer(emp.completionRate))

EmployeeDashboard_averagePerformers ==
    SelectSeq(EmployeeDashboard_filteredEmployees,
              LAMBDA emp : EmployeeDashboard_isAveragePerformer(emp.completionRate))

EmployeeDashboard_needsAttention ==
    SelectSeq(EmployeeDashboard_filteredEmployees,
              LAMBDA emp : EmployeeDashboard_isNeedsAttention(emp.completionRate))

\* String.prototype.includes on the lower-cased strings that occur: none of
\* them is a proper substring of another, except the empty string
StringIncludes(s, t) == t = "" \/ s = t

\* EmployeeDashboard.filteredEmployees: the chain of filters over a list, for
\* given selected-value arrays and search text
EmployeeDashboard_filtered(list, selected, search) ==
    SelectSeq(list, LAMBDA emp :
        /\ (Len(selected.store) > 0 /\ isMerged) => includes(selected.store, emp.location)
        /\ (Len(selected.areaManager) > 0 /\ isMerged) =>
              includes(selected.areaManager, emp.areaManager)
        /\ (Len(selected.trainer) > 0 /\ isMerged) =>
              includes(selected.trainer, emp.trainer)
        /\ Len(selected.designation) > 0 => includes(selected.designation, emp.designation)
        /\ Len(selected.tenure) > 0 => includes(selected.tenure, emp.tenure)
        /\ Len(selected.course) > 0 =>
              \E i \in 1..Len(emp.courses) :
                  includes(selected.course, emp.courses[i].course_name)
        /\ search # "" =>
              \/ StringIncludes(toLowerCase(emp.employee_name), toLowerCase(search))
              \/ StringIncludes(toLowerCase(emp.employee_code), toLowerCase(search)))

\* whether one of the filter branches ran, so that `filtered` is a new array
EmployeeDashboard_filterRan(selected, search) ==
    \/ Len(selected.store) > 0 /\ isMerged
    \/ Len(selected.areaManager) > 0 /\ isMerged
    \/ Len(selected.trainer) > 0 /\ isMerged
    \/ Len(selected.designation) > 0
    \/ Len(selected.tenure) > 0
    \/ Len(selected.course) > 0
    \/ search # ""

\* the comparator of filtered.sort: the verdicts "a goes before b"
EmployeeDashboard_comparator(list, by, order) ==
    [i \in 1..Len(list) |-> [j \in 1..Len(list) |->
        LET a == list[i]
            b == list[j]
            bothNumbers == ~a.completionRate.nan /\ ~b.completionRate.nan
            less == CASE by = "completion" ->
                            bothNumbers /\ a.completionRate.val < b.completionRate.val
                      [] by = "designation" ->
                            StringLess(toLowerCase(a.designation),
                                       toLowerCase(b.designation))
                      [] OTHER ->
                            StringLess(toLowerCase(a.employee_name),
                                       toLowerCase(b.employee_name))
            greater == CASE by = "completion" ->
                            bothNumbers /\ a.completionRate.val > b.completionRate.val
                      [] by = "designation" ->
                            StringLess(toLowerCase(b.designation),
                                       toLowerCase(a.designation))
                      [] OTHER ->
                            StringLess(toLowerCase(b.employee_name),
                                       toLowerCase(a.employee_name))
        IN  IF order = "asc" THEN less ELSE greater]]

\* filtered.sort(...) copies nothing
EmployeeDashboard_sorted(list, by, order) ==
    StableSort(list, EmployeeDashboard_comparator(list, by, order))

\* what the filteredEmployees memo returns for the memoized rollup array
filteredEmployees_useMemo(memo, selected, search, by, order) ==
    EmployeeDashboard_sorted(EmployeeDashboard_filtered(memo, selected, search),
                             by, order)

\* the memoized rollup array after the filteredEmployees memo ran: when no
\* filter branch ran, `filtered` is the memoized array itself and the sort
\* is done in it
employeeData_afterSort(memo, selected, search, by, order) ==
    IF EmployeeDashboard_filterRan(selected, search) THEN memo
    ELSE EmployeeDashboard_sorted(memo, by, order)

-----------------------------------------------------------------------------
(* Employee dashboard: the status of a course in the detail list *)

\* a < b on Dates: false whenever one of them is an Invalid Date
DateLess(a, b) ==
    /\ ~a.nan
    /\ ~b.nan
    /\ \/ a.day < b.day
       \/ a.day = b.day /\ a.ms < b.ms

\* EmployeeDashboard.isCourseOverdue, now being what new Date() returns
isCourseOverdue(course, now) ==
    IF course.completion_status = "Completed" THEN FALSE
    ELSE DateLess(course.course_end_date, now)

\* EmployeeDashboard.getCourseStatus
getCourseStatus(course, now) ==
    IF course.completion_status = "Completed"
    THEN [status |-> "Completed", color |-> "green", isOverdue |-> FALSE]
    ELSE IF isCourseOverdue(course, now)
         THEN [status |-> "Overdue", color |-> "red", isOverdue |-> TRUE]
         ELSE [status |-> "In Progress", color |-> "yellow", isOverdue |-> FALSE]

\* one element of courseDetails: the fields taken from the record, then the
\* spread of getCourseStatus(record)
courseDetailOf(rec, now) ==
    LET courseStatus == getCourseStatus(rec, now)
    IN  [course_end_date |-> rec.course_end_date,
         completion_status |-> rec.course_completion_status,
         status |-> courseStatus.status,
         color |-> courseStatus.color,
         isOverdue |-> courseStatus.isOverdue]

-----------------------------------------------------------------------------
(* Ingestion: what each path makes of one raw row *)

\* Values of a raw row, by their JavaScript type.
Str(s) == [type |-> "string", str |-> s]
JsNumber(n) == [type |-> "number", nan |-> FALSE, val |-> n]
JsNaN == [type |-> "number", nan |-> TRUE, val |-> 0]
Undefined == [type |-> "undefined"]
JsNull == [type |-> "null"]

\* a value used as a condition
IsTruthy(v) ==
    CASE v.type = "string" -> v.str # ""
      [] v.type = "number" -> ~v.nan /\ v.val # 0
      [] OTHER -> FALSE

\* String.prototype.trim, on the strings that occur
trim(s) ==
    CASE s = " Completed " -> "Completed"
      [] s = " " -> ""
      [] OTHER -> s

\* String.prototype.replace('%', ''), on the strings that occur
replacePercent(s) ==
    CASE s = "50%" -> "50"
      [] OTHER -> s

\* parseFloat of a string, on the strings that occur: the leading number, or
\* NaN when the string does not start with one
parseFloatString(s) ==
    CASE s = "3" -> JsNumber(3)
      [] s = "50" -> JsNumber(50)
      [] s = "50%" -> JsNumber(50)
      [] OTHER -> JsNaN

\* parseFloat(v): the argument is converted to a string first
parseFloat(v) ==
    CASE v.type = "string" -> parseFloatString(v.str)
      [] v.type = "number" -> v
      [] OTHER -> JsNaN

\* parseFloat(String(v).replace('%', ''))
parseFloatWithoutPercent(v) ==
    CASE v.type = "string" -> parseFloatString(replacePercent(v.str))
      [] v.type = "number" -> v
      [] OTHER -> JsNaN

\* JSON.parse(JSON.stringify(v)) of a property: NaN comes back as null
ThroughJSON(v) == IF v.type = "number" /\ v.nan THEN JsNull ELSE v

RawRows ==
    [employee_code : {Undefined, Str(""), Str("E1")},
     employee_name : {Undefined, Str(""), Str("Zoe")},
     course_completion_status :
        {Undefined, Str(""), Str("Completed"), Str("completed"),
         Str(" Completed "), Str("Not Completed")},
     course_completion_hours : {Undefined, Str(""), Str("3"), Str("abc")},
     course_progress : {Undefined, Str(""), Str("50%"), Str("50"), Str("abc")}]

\* App.loadCSVData: the row mapper handed to csvParse
loadCSVData_row(cleanedD) ==
    [cleanedD EXCEPT
       !.course_completion_hours =
          IF IsTruthy(@) THEN parseFloat(@) ELSE JsNumber(0),
       !.course_progress =
          IF IsTruthy(@) THEN parseFloatWithoutPercent(@) ELSE JsNumber(0),
       !.course_completion_status =
          IF @ = Str("Completed") THEN Str("Completed") ELSE Str("Not Completed")]

\* App.handleAdminFileUpload: the row mapper handed to csvParse
handleAdminFileUpload_row(cleanedD) ==
    [cleanedD EXCEPT
       !.course_completion_hours =
          IF IsTruthy(@) THEN parseFloat(@) ELSE JsNumber(0),
       !.course_progress =
          IF IsTruthy(@) THEN parseFloatWithoutPercent(@) ELSE JsNumber(0),
       !.course_completion_status =
          IF @ = Str("Completed") THEN Str("Completed") ELSE Str("Not Completed")]

\* google-apps-script getTrainingData: a cell is made a trimmed string first
getTrainingData_value(cell) ==
    IF cell.type \in {"undefined", "null"} THEN Str("")
    ELSE IF cell.type = "string" THEN Str(trim(cell.str))
    ELSE cell

\* google-apps-script getTrainingData: the record made of a sheet row
getTrainingData_record(row) ==
    [employee_code |-> getTrainingData_value(row.employee_code),
     employee_name |-> getTrainingData_value(row.employee_name),
     course_completion_hours |->
        LET value == getTrainingData_value(row.course_completion_hours)
        IN  IF IsTruthy(value) THEN parseFloat(value) ELSE JsNumber(0),
     course_progress |->
        LET numValue == parseFloatWithoutPercent(
                            getTrainingData_value(row.course_progress))
        IN  IF numValue.nan THEN JsNumber(0) ELSE numValue,
     course_completion_status |->
        IF getTrainingData_value(row.course_completion_status) = Str("Completed")
        THEN Str("Completed") ELSE Str("Not Completed")]

\* "Only add non-empty rows"
getTrainingData_keeps(rec) ==
    \E f \in DOMAIN rec : rec[f] # Str("")

\* googleSheetsService.fetchTrainingDataFromSheets: processedData, of a
\* record of the script's JSON response
fetchTrainingDataFromSheets_record(rec) ==
    [rec EXCEPT
       !.course_completion_hours =
          IF IsTruthy(@) THEN parseFloat(@) ELSE JsNumber(0),
       !.course_progress =
          IF IsTruthy(@) THEN parseFloatWithoutPercent(@) ELSE JsNumber(0),
       !.course_completion_status =
          IF @ = Str("Completed") THEN Str("Completed") ELSE Str("Not Completed")]

\* a cell of a CSV line in the two hand-written parsers: values[index] || ''
\* trimmed; a column the file does not have leaves the property undefined
csvCell(v) == IF v.type = "string" THEN Str(trim(v.str)) ELSE v

\* DataPersistenceService.parseCSV: the row made of a line
parseCSV_row(line) == [f \in DOMAIN line |-> csvCell(line[f])]

\* githubService.parseCSVData: the record made of a line
parseCSVData_record(line) == [f \in DOMAIN line |-> csvCell(line[f])]

\* "Validate required fields"
parseCSVData_keeps(rec) ==
    IsTruthy(rec.employee_code) /\ IsTruthy(rec.employee_name)

\* String(x || '').trim()
validateTrainingData_field(x) ==
    IF IsTruthy(x) /\ x.type = "string" THEN Str(trim(x.str)) ELSE Str("")

\* validateTrainingData: "Check for required fields"
validateTrainingData_keeps(rec) ==
    ~(~IsTruthy(rec.employee_code) \/ ~IsTruthy(rec.employee_name))

\* validateTrainingData: "Transform and clean the data"
validateTrainingData_record(rec) ==
    [f \in DOMAIN rec |-> validateTrainingData_field(rec[f])]

-----------------------------------------------------------------------------
(* Ingestion: what each parser makes of a whole CSV text *)

\* the header line: every column holds its own name
Header == [f \in DOMAIN CHOOSE r \in RawRows : TRUE |-> Str(f)]

\* data lines; the parsers below look at the two required columns only
CsvLines ==
    {r \in RawRows : /\ r.course_completion_status = Str("Completed")
                     /\ r.course_completion_hours = Str("3")
                     /\ r.course_progress = Str("50")}

\* the non-blank lines of a text: none at all, or a header and data lines
CsvTexts == {<<>>} \cup {<<Header>> \o rows : rows \in SeqsUpTo(CsvLines, MaxLines)}

Thrown(by, message) ==
    [done |-> TRUE, by |-> by, threw |-> TRUE, message |-> message, records |-> <<>>]

Returned(by, records) ==
    [done |-> TRUE, by |-> by, threw |-> FALSE, message |-> "", records |-> records]

\* githubService.parseCSVData
parseCSVData(lines) ==
    IF Len(lines) = 0 THEN Thrown("parseCSVData", "No data found in CSV")
    ELSE LET mapped == [i \in 1..(Len(lines) - 1) |->
                          parseCSVData_record(lines[i + 1])]
             records == SelectSeq(mapped, parseCSVData_keeps)
         IN  IF Len(records) = 0
             THEN Thrown("parseCSVData",
                         "No valid training records found in CSV data")
             ELSE Returned("parseCSVData", records)

\* DataPersistenceService.parseCSV
parseCSV(lines) ==
    IF Len(lines) < 2 THEN Returned("parseCSV", <<>>)
    ELSE Returned("parseCSV",
                  [i \in 1..(Len(lines) - 1) |-> parseCSV_row(lines[i + 1])])

\* App.loadCSVData: the text check and csvParse
loadCSVData_parsedData(lines) ==
    IF Len(lines) = 0
    THEN Thrown("loadCSVData", "CSV file is empty or could not be read")
    ELSE Returned("loadCSVData",
                  [i \in 1..(Len(lines) - 1) |-> loadCSVData_row(lines[i + 1])])

-----------------------------------------------------------------------------
(* DataPersistenceService: the startup load and its fallbacks *)

\* a value of localStorage: no item, an item that is not JSON, or JSON text
NoItem == [kind |-> "absent"]
Corrupt == [kind |-> "corrupt"]
Json(v) == [kind |-> "json", value |-> v]

\* an array or null, as loadData and autoLoadData return it
NullData == [isNull |-> TRUE, value |-> <<>>]
Data(v) == [isNull |-> FALSE, value |-> v]

\* the dataset saved by an earlier session, the rows of the file in the
\* repository and the rows of the local CSV file
SavedRows == <<[employee_code |-> Str("E1")]>>
GitHubCsv ==
    <<Header, CHOOSE line \in CsvLines :
                  line.employee_code = Str("E1") /\ line.employee_name = Str("Zoe")>>
LocalRows == <<[employee_code |-> Str("E3")]>>

\* DataPersistenceService.saveData
saveData(rows, name) ==
    [lms_training_data |-> Json(rows), lms_data_metadata |-> Json(name)]

\* DataPersistenceService.loadData: one try block around both JSON.parse calls
loadData(storage) ==
    IF storage.lms_training_data.kind = "corrupt"
         \/ storage.lms_data_metadata.kind = "corrupt"
    THEN [data |-> NullData, fileName |-> Undef]
    ELSE [data |-> IF storage.lms_training_data.kind = "json"
                   THEN Data(storage.lms_training_data.value) ELSE NullData,
          fileName |-> IF storage.lms_data_metadata.kind = "json"
                       THEN storage.lms_data_metadata.value ELSE Undef]

\* githubUploadService.listDataFiles: [] when the response is not ok or the
\* request throws
listDataFiles(repository) ==
    IF repository.listFails THEN <<>> ELSE repository.files

\* files.sort((a, b) => b.name.localeCompare(a.name))[0]; the names carry a
\* timestamp and are listed here oldest first
latestFile(files) == files[Len(files)]

\* DataPersistenceService.checkForUpdates: its result and what it leaves in
\* localStorage
checkForUpdates(repository, storage) ==
    LET files == listDataFiles(repository)
        noUpdates == [hasUpdates |-> FALSE, data |-> <<>>, storage |-> storage]
    IN  IF ~repository.configured THEN noUpdates
        ELSE IF Len(files) = 0 THEN noUpdates
        ELSE IF loadData(storage).fileName = latestFile(files) THEN noUpdates
        ELSE IF ~repository.hasDownloadUrl THEN noUpdates
        ELSE IF repository.download = "throws" THEN noUpdates
        ELSE LET csvLines == IF repository.download = "csv" THEN GitHubCsv
                             ELSE <<Str("404: Not Found")>>
                 rows == parseCSV(csvLines).records
             IN  [hasUpdates |-> TRUE, data |-> rows,
                  storage |-> saveData(rows, latestFile(files))]

-----------------------------------------------------------------------------
(* githubService.fetchTrainingDataFromGitHub: sources and retries *)

MAX_RETRIES == 3

\* dataSources of githubService.ts, and the one URL of its earlier version
DataSourceLists == {<<"GitHub Repository", "Local CSV">>, <<"GitHub">>}

\* what `await fetch` can end with other than an ok response: the response
\* is not ok, or the request rejects (network error, abort after TIMEOUT)
RequestErrors == {"request failed", "aborted"}

\* the texts response.text() can resolve with
ResponseTexts == CsvTexts

\* the attempt that is running, entered in the list of the attempts made
AttemptMade(run, caught) ==
    Append(run.attempts, [source |-> run.dataSources[run.source],
                          attempt |-> run.attempt, error |-> caught])

\* the catch block of an attempt and what the two loops do next: wait and
\* retry, go to the next source, or fall out of the loops and throw
afterCatch(run, thrown) ==
    LET caught == [run EXCEPT !.lastError = thrown,
                              !.attempts = AttemptMade(run, thrown)]
    IN  IF run.attempt < MAX_RETRIES
        THEN [caught EXCEPT !.status = "retryDelay"]
        ELSE IF run.source < Len(run.dataSources)
        THEN [caught EXCEPT !.source = @ + 1, !.attempt = 1]
        ELSE [caught EXCEPT !.status = "thrown"]

\* lines 83-96: the text is tested, parsed and returned, or an error is thrown
\* to the catch block
afterText(run, text) ==
    IF Len(text) = 0
    THEN afterCatch(run, "Empty CSV data received")
    ELSE LET result == parseCSVData(text)
         IN  IF result.threw
             THEN afterCatch(run, result.message)
             ELSE [run EXCEPT !.status = "returned",
                              !.attempts = AttemptMade(run, ""),
                              !.data = result.records]

-----------------------------------------------------------------------------
(* App: the loading flag and the admin session *)

ADMIN_PASSWORD == "admin123"

\* what can be typed into the password field
Passwords == {ADMIN_PASSWORD, "letmein"}

\* 24 * 60 * 60 * 1000 milliseconds, in units of twelve hours
SessionLength == 2

\* a key of localStorage that is not there, that holds the decimal digits of
\* an instant, that holds another text
NoKey == [kind |-> "absent", ms |-> 0]
InstantKey(ms) == [kind |-> "digits", ms |-> ms]
OtherText == [kind |-> "text", ms |-> 0]

NoAdminKeys == [adminSession |-> "absent", adminSessionExpiry |-> NoKey]

\* what handleSubmit stores at the instant t
StoredSession(t) ==
    [adminSession |-> "authenticated", adminSessionExpiry |-> InstantKey(t + SessionLength)]

\* Date.now() < parseInt(sessionExpiry): parseInt gives NaN for a text
\* without leading digits, and no number is less than NaN
BeforeExpiry(t, sessionExpiry) ==
    sessionExpiry.kind = "digits" /\ t < sessionExpiry.ms

\* checkAdminSession accepting an instant equal to the expiry
checkAdminSession_atExpiry(keys, t, admin) ==
    IF keys.adminSession = "authenticated" /\ keys.adminSessionExpiry.kind # "absent"
    THEN IF keys.adminSessionExpiry.kind = "digits" /\ t <= keys.adminSessionExpiry.ms
         THEN [isAdmin |-> TRUE, adminKeys |-> keys]
         ELSE [isAdmin |-> FALSE, adminKeys |-> NoAdminKeys]
    ELSE [isAdmin |-> admin, adminKeys |-> keys]

\* App.checkAdminSession at the instant t: the new isAdmin and the keys left
checkAdminSession(keys, t, admin) ==
    IF keys.adminSession = "authenticated" /\ keys.adminSessionExpiry.kind # "absent"
    THEN IF BeforeExpiry(t, keys.adminSessionExpiry)
         THEN [isAdmin |-> TRUE, adminKeys |-> keys]
         ELSE [isAdmin |-> FALSE, adminKeys |-> NoAdminKeys]
    ELSE [isAdmin |-> admin, adminKeys |-> keys]

\* the sequence without its i-th element
RemoveAt(seq, i) ==
    [k \in 1..(Len(seq) - 1) |-> IF k < i THEN seq[k] ELSE seq[k + 1]]

-----------------------------------------------------------------------------
(* MultiSelectFilter and the option lists Dashboard hands to it *)

\* the UTF-16 code units of the strings that occur as options or search texts
CodeUnits(s) ==
    CASE s = "" -> <<>>
      [] s = "Store A" -> <<83, 116, 111, 114, 101, 32, 65>>
      [] s = "Store B" -> <<83, 116, 111, 114, 101, 32, 66>>
      [] s = "Clerk" -> <<67, 108, 101, 114, 107>>
      [] s = "Lead" -> <<76, 101, 97, 100>>
      [] s = "Unknown" -> <<85, 110, 107, 110, 111, 119, 110>>
      [] s = "a" -> <<97>>
      [] s = "B" -> <<66>>
      [] s = "K" -> <<75>>
      [] s = "zz" -> <<122, 122>>

\* String.prototype.toLowerCase on code units
toLowerCaseUnits(units) ==
    [k \in 1..Len(units) |->
        IF units[k] \in 65..90 THEN units[k] + 32 ELSE units[k]]

\* String.prototype.includes on code units
includesUnits(units, part) ==
    \E k \in 0..(Len(units) - Len(part)) :
        SubSeq(units, k + 1, k + Len(part)) = part

\* a < b as Array.prototype.sort() compares strings: by code units
CodeUnitLess(a, b) ==
    LET ua == CodeUnits(a)
        ub == CodeUnits(b)
    IN  \E k \in 1..Len(ub) :
            /\ \A j \in 1..(k - 1) : j <= Len(ua) /\ ua[j] = ub[j]
            /\ k > Len(ua) \/ (k <= Len(ua) /\ ua[k] < ub[k])

\* [...new Set(values)].sort()
SortedValues(values) ==
    CHOOSE seq \in [1..Cardinality(values) -> values] :
        /\ \A i, j \in 1..Cardinality(values) : i < j => CodeUnitLess(seq[i], seq[j])

\* stores.filter(store => store.toLowerCase().includes(search.toLowerCase()))
MatchingSearch(sorted, search) ==
    SelectSeq(sorted, LAMBDA v :
        includesUnits(toLowerCaseUnits(CodeUnits(v)), toLowerCaseUnits(CodeUnits(search))))

\* Dashboard.uniqueStores for a search text
Dashboard_uniqueStores(search) == MatchingSearch(SortedValues(uniqueStores), search)

\* Dashboard.uniqueDesignations for a search text
Dashboard_uniqueDesignations(search) ==
    MatchingSearch(SortedValues(uniqueDesignations), search)

\* MultiSelectFilter.handleSelectAll: the value handed to onSelectionChange
handleSelectAll(selectedValues, options) ==
    IF Len(selectedValues) = Len(options) THEN <<>> ELSE options

-----------------------------------------------------------------------------
(* Operations *)

NoSelection ==
    /\ selectedTenure' = <<>>
    /\ selectedStore' = <<>>
    /\ selectedAreaManager' = <<>>
    /\ selectedTrainer' = <<>>
    /\ selectedCourse' = <<>>
    /\ selectedDesignation' = <<>>

NoLabels ==
    [Dashboard |-> "", EmployeeDashboard |-> "", TenureCompletionChart |-> "",
     TenureDistributionChart |-> "", FilterSection |-> "", CompactFilter |-> ""]

NotClassified == [classified |-> FALSE, labels |-> NoLabels]

Init ==
    /\ sourceRows \in Files
    /\ parsedData = <<>>
    /\ data = <<>>
    /\ hasData = FALSE
    /\ isMerged = FALSE
    /\ selectedTenure = <<>>
    /\ selectedStore = <<>>
    /\ selectedAreaManager = <<>>
    /\ selectedTrainer = <<>>
    /\ selectedCourse = <<>>
    /\ selectedDesignation = <<>>
    /\ currentDate = EvalInstant
    /\ dateOfJoining = InvalidDate
    /\ tenure = NotClassified
    /\ activeTab = "overview"
    /\ RateIdle
    /\ DetailIdle
    /\ IngestIdle
    /\ ServicesIdle

\* What a data source returns: the file, with or without its 'Store ID' column.
Loaded(hasStoreIdColumn) ==
    IF hasStoreIdColumn THEN sourceRows ELSE WithoutStoreId(sourceRows)

\* App.autoLoadData: whatever the persistence service returns is merged. The
\* tabbed dashboard is unmounted while isLoading, so its selections start
\* afresh and it comes back on the overview tab.
autoLoadData ==
    \E hasStoreIdColumn \in BOOLEAN :
      LET rows == Loaded(hasStoreIdColumn) IN
        /\ parsedData' = rows
        /\ IF Len(rows) > 0
           THEN /\ data' = mergeWithStoreData(rows)
                /\ hasData' = TRUE
                /\ isMerged' = TRUE
           ELSE /\ data' = <<>>
                /\ hasData' = FALSE
                /\ UNCHANGED isMerged
        /\ NoSelection
        /\ activeTab' = "overview"
        /\ UNCHANGED <<sourceRows, currentDate, otherVars>>

\* App.loadCSVData, the fetch and the parse succeeding.
loadCSVData ==
    \E hasStoreIdColumn \in BOOLEAN :
      LET rows == sourceRows IN
        /\ IF hasStoreIdColumn
           THEN /\ parsedData' = rows
                /\ data' = loadCSVData_mergedData(rows)
                /\ isMerged' = TRUE
           ELSE /\ parsedData' = WithoutStoreId(rows)
                /\ data' = WithoutStoreId(rows)
                /\ isMerged' = FALSE
        /\ hasData' = TRUE
        /\ NoSelection
        /\ activeTab' = "overview"
        /\ UNCHANGED <<sourceRows, currentDate, otherVars>>

\* App.loadCSVData, the fetch or the parse throwing: data is left as it was.
loadCSVData_fails ==
    /\ NoSelection
    /\ activeTab' = "overview"
    /\ UNCHANGED <<sourceRows, loadVars, currentDate, otherVars>>

\* App.handleAdminFileUpload: runs in the FileReader's onload, which sets
\* data without going through isLoading, so the selections are kept.
handleAdminFileUpload ==
    \E hasStoreIdColumn \in BOOLEAN :
      LET rows == sourceRows IN
        /\ IF hasStoreIdColumn
           THEN /\ parsedData' = rows
                /\ data' = mergeWithStoreData(rows)
                /\ isMerged' = TRUE
           ELSE /\ parsedData' = WithoutStoreId(rows)
                /\ data' = WithoutStoreId(rows)
                /\ isMerged' = FALSE
        /\ hasData' = TRUE
        /\ UNCHANGED <<sourceRows, selVars, currentDate, activeTab, otherVars>>

\* what the directory sheet can hold: nothing, the directory, its first entry
SheetDirectories == {<<>>, storeMappingData, SubSeq(storeMappingData, 1, 1)}

\* fetchTrainingDataFromSheets, its result handed on as the dashboard's data.
fetchTrainingDataFromSheets ==
    \E hasStoreId \in BOOLEAN, storeData \in SheetDirectories :
      LET rows == sourceRows IN
        /\ IF hasStoreId /\ Len(storeData) > 0
           THEN /\ parsedData' = rows
                /\ data' = Sheets_mergedData(rows, storeData)
                /\ isMerged' = TRUE
           ELSE /\ parsedData' = (IF hasStoreId THEN rows ELSE WithoutStoreId(rows))
                /\ data' = (IF hasStoreId THEN rows ELSE WithoutStoreId(rows))
                /\ isMerged' = FALSE
        /\ hasData' = TRUE
        /\ NoSelection
        /\ activeTab' = "overview"
        /\ UNCHANGED <<sourceRows, currentDate, otherVars>>

TotalSelected ==
    Len(selectedTenure) + Len(selectedStore) + Len(selectedAreaManager)
    + Len(selectedTrainer) + Len(selectedCourse) + Len(selectedDesignation)

\* selectedValues.filter(v => v !== option)
Without(selectedValues, option) ==
    SelectSeq(selectedValues, LAMBDA v : v # option)

\* MultiSelectFilter.handleOptionToggle
Toggled(selectedValues, option) ==
    IF includes(selectedValues, option)
    THEN Without(selectedValues, option)
    ELSE Append(selectedValues, option)

\* A click on an option of one of the six filters. The store, area manager
\* and trainer filters are rendered for merged data only.
handleOptionToggle ==
    \E dim \in Dimensions :
        \E option \in SelectableValues(dim) :
            /\ hasData
            /\ dim \in DirectoryDimensions => isMerged
            /\ includes(Selected(dim), option) \/ TotalSelected < MaxSelected
            /\ selectedTenure' =
                 IF dim = "tenure" THEN Toggled(selectedTenure, option)
                 ELSE selectedTenure
            /\ selectedStore' =
                 IF dim = "store" THEN Toggled(selectedStore, option)
                 ELSE selectedStore
            /\ selectedAreaManager' =
                 IF dim = "areaManager" THEN Toggled(selectedAreaManager, option)
                 ELSE selectedAreaManager
            /\ selectedTrainer' =
                 IF dim = "trainer" THEN Toggled(selectedTrainer, option)
                 ELSE selectedTrainer
            /\ selectedCourse' =
                 IF dim = "course" THEN Toggled(selectedCourse, option)
                 ELSE selectedCourse
            /\ selectedDesignation' =
                 IF dim = "designation" THEN Toggled(selectedDesignation, option)
                 ELSE selectedDesignation
            /\ UNCHANGED <<sourceRows, loadVars, currentDate, activeTab, otherVars>>

\* The "Clear All Filters" button, shown while some selection is non-empty.
clearAllFilters ==
    /\ hasData
    /\ TotalSelected > 0
    /\ NoSelection
    /\ UNCHANGED <<sourceRows, loadVars, currentDate, activeTab, otherVars>>

-----------------------------------------------------------------------------
(* The tenure classifier on its own: one joining date, a running clock *)

JoinDates ==
    {Instant(d, m) : d \in 0..(MaxDays + 1), m \in {0, Noon, MsPerDay - 1}}
    \cup {InvalidDate}

InitTenure ==
    /\ sourceRows = <<>>
    /\ parsedData = <<>>
    /\ data = <<>>
    /\ hasData = FALSE
    /\ isMerged = FALSE
    /\ selectedTenure = <<>>
    /\ selectedStore = <<>>
    /\ selectedAreaManager = <<>>
    /\ selectedTrainer = <<>>
    /\ selectedCourse = <<>>
    /\ selectedDesignation = <<>>
    /\ currentDate = Instant(MaxDays, 0)
    /\ dateOfJoining \in JoinDates
    /\ tenure = NotClassified
    /\ activeTab = "overview"
    /\ RateIdle
    /\ DetailIdle
    /\ IngestIdle
    /\ ServicesIdle

\* Each component classifies the joining date with its own calculateTenure.
calculateTenure ==
    /\ ~tenure.classified
    /\ tenure' =
         [classified |-> TRUE,
          labels |->
            [Dashboard |-> Dashboard_calculateTenure(dateOfJoining, currentDate),
             EmployeeDashboard |->
                EmployeeDashboard_calculateTenure(dateOfJoining, currentDate),
             TenureCompletionChart |->
                TenureCompletionChart_calculateTenure(dateOfJoining, currentDate),
             TenureDistributionChart |->
                TenureDistributionChart_calculateTenure(dateOfJoining, currentDate),
             FilterSection |->
                FilterSection_calculateTenure(dateOfJoining, currentDate),
             CompactFilter |->
                CompactFilter_calculateTenure(dateOfJoining, currentDate)]]
    /\ UNCHANGED <<serviceVars, sourceRows, loadVars, selVars, currentDate, dateOfJoining,
                   activeTab, rateVars,
                   detailVars, ingestVars>>

\* Time passes between two renders: new Date() returns a later instant.
clockAdvances ==
    /\ currentDate.day <= MaxDays
    /\ currentDate' =
         IF currentDate.ms = 0 THEN Instant(currentDate.day, Noon)
         ELSE Instant(currentDate.day + 1, 0)
    /\ tenure' = NotClassified
    /\ UNCHANGED <<serviceVars, sourceRows, loadVars, selVars, dateOfJoining, activeTab, rateVars,
                   detailVars, ingestVars>>

NextTenure == calculateTenure \/ clockAdvances

SpecTenure == InitTenure /\ [][NextTenure]_vars

\* The rate computations, started from an empty accumulator entry
InitRate ==
    /\ sourceRows = <<>>
    /\ parsedData = <<>>
    /\ data = <<>>
    /\ hasData = FALSE
    /\ isMerged = FALSE
    /\ selectedTenure = <<>>
    /\ selectedStore = <<>>
    /\ selectedAreaManager = <<>>
    /\ selectedTrainer = <<>>
    /\ selectedCourse = <<>>
    /\ selectedDesignation = <<>>
    /\ currentDate = EvalInstant
    /\ dateOfJoining = InvalidDate
    /\ tenure = NotClassified
    /\ activeTab = "overview"
    /\ RateIdle
    /\ DetailIdle
    /\ IngestIdle
    /\ ServicesIdle

\* The body of the loops that count a record into its entry: the total goes
\* up, the completed count goes up for a 'Completed' record, and the employee
\* rollups recompute their rate from the counts reached so far.
countOneRecord ==
    \E status \in {"Completed", "Not Completed"} :
        /\ counts.total < MaxTotal
        /\ LET total == counts.total + 1
               completed == IF status = "Completed" THEN counts.completed + 1
                            ELSE counts.completed
           IN  /\ counts' = [total |-> total, completed |-> completed]
               /\ completion_rate' =
                    [Dashboard |-> Dashboard_completion_rate(completed, total),
                     EmployeeDashboard |->
                        EmployeeDashboard_completionRate(completed, total)]
        /\ chartRates' = NoRates
        /\ UNCHANGED <<serviceVars, sourceRows, loadVars, selVars, currentDate, activeTab,
                       tenureVars, detailVars, ingestVars>>

\* The rate each chart computes for an entry that holds these counts; an
\* entry that no record was counted into is a key seeded beforehand.
computeChartRates ==
    /\ ~chartRates.computed
    /\ chartRates' =
         [computed |-> TRUE,
          Region |-> RateOf(counts.completed, counts.total),
          Trainer |-> RateOf(counts.completed, counts.total),
          AreaManager |-> RateOf(counts.completed, counts.total),
          Store |-> RateOf(counts.completed, counts.total),
          Course |-> RateOf(counts.completed, counts.total),
          Department |-> RateOf(counts.completed, counts.total),
          Designation |-> RateOf(counts.completed, counts.total),
          Tenure |-> GuardedRateOf(counts.completed, counts.total),
          TenureDistribution |-> GuardedRateOf(counts.completed, counts.total),
          CompletionRateCard |->
             CompletionRateCard_safeCompletionRate(counts.completed, counts.total)]
    /\ UNCHANGED <<serviceVars, sourceRows, loadVars, selVars, currentDate, activeTab,
                   tenureVars, counts, completion_rate, detailVars, ingestVars>>

NextRate == countOneRecord \/ computeChartRates

SpecRate == InitRate /\ [][NextRate]_vars

\* The tabbed dashboard over a file in which an employee has several records
ScenarioRows ==
    << Row("E1", "Zoe", "Ops", "Clerk", "C1", "Completed", JoinedDaysAgo(4), "S1"),
       Row("E1", "Zoe", "Ops", "Clerk", "101", "Not Completed", JoinedDaysAgo(4), "S1"),
       Row("E2", "Amy", "Ops", "Lead", "C1", "Completed", JoinedDaysAgo(31), "S2") >>

\* the file holds some of these rows, in their order
InitEmployee ==
    /\ \E kept \in SUBSET (1..Len(ScenarioRows)) :
          LET f == SelectSeq([i \in 1..Len(ScenarioRows) |->
                                [at |-> i, row |-> ScenarioRows[i]]],
                            LAMBDA e : e.at \in kept)
          IN  sourceRows = [i \in 1..Len(f) |-> f[i].row]
    /\ parsedData = <<>>
    /\ data = <<>>
    /\ hasData = FALSE
    /\ isMerged = FALSE
    /\ selectedTenure = <<>>
    /\ selectedStore = <<>>
    /\ selectedAreaManager = <<>>
    /\ selectedTrainer = <<>>
    /\ selectedCourse = <<>>
    /\ selectedDesignation = <<>>
    /\ currentDate = EvalInstant
    /\ dateOfJoining = InvalidDate
    /\ tenure = NotClassified
    /\ activeTab = "overview"
    /\ RateIdle
    /\ DetailIdle
    /\ IngestIdle
    /\ ServicesIdle

\* TabbedDashboard: a click on the other tab mounts the other dashboard,
\* whose six selected-value arrays start empty.
setActiveTab ==
    \E tab \in {"overview", "employee"} :
        /\ hasData
        /\ tab # activeTab
        /\ activeTab' = tab
        /\ NoSelection
        /\ UNCHANGED <<sourceRows, loadVars, currentDate, otherVars>>

NextEmployee ==
    \/ autoLoadData
    \/ handleAdminFileUpload
    \/ fetchTrainingDataFromSheets
    \/ handleOptionToggle
    \/ clearAllFilters
    \/ setActiveTab

SpecEmployee == InitEmployee /\ [][NextEmployee]_vars

\* The course detail of one record. A record of data keeps its status under
\* course_completion_status and has no completion_status property.
CourseRecords ==
    { [course_completion_status |-> status, completion_status |-> Undef,
       course_end_date |-> endDate] :
          status \in {"Completed", "Not Completed"},
          endDate \in {Instant(d, m) : d \in (MaxDays - 1)..(MaxDays + 1),
                                       m \in {0, Noon}} \cup {InvalidDate} }

InitCourseDetail ==
    /\ sourceRows = <<>>
    /\ parsedData = <<>>
    /\ data = <<>>
    /\ hasData = FALSE
    /\ isMerged = FALSE
    /\ selectedTenure = <<>>
    /\ selectedStore = <<>>
    /\ selectedAreaManager = <<>>
    /\ selectedTrainer = <<>>
    /\ selectedCourse = <<>>
    /\ selectedDesignation = <<>>
    /\ currentDate = Instant(MaxDays, 0)
    /\ dateOfJoining = InvalidDate
    /\ tenure = NotClassified
    /\ activeTab = "employee"
    /\ RateIdle
    /\ courseRecord \in CourseRecords
    /\ selectedEmployeeDetail = [isModalOpen |-> FALSE]
    /\ IngestIdle
    /\ ServicesIdle

\* EmployeeDashboard.handleEmployeeClick, for the employee of the record:
\* the detail is computed at the instant of the click
handleEmployeeClick ==
    /\ selectedEmployeeDetail' =
         [isModalOpen |-> TRUE,
          courseDetail |-> courseDetailOf(courseRecord, currentDate),
          evaluatedAt |-> currentDate]
    /\ UNCHANGED <<serviceVars, sourceRows, loadVars, selVars, currentDate, activeTab,
                   tenureVars, rateVars, courseRecord, ingestVars>>

\* EmployeeDashboard.closeModal
closeModal ==
    /\ selectedEmployeeDetail.isModalOpen
    /\ selectedEmployeeDetail' = [isModalOpen |-> FALSE]
    /\ UNCHANGED <<serviceVars, sourceRows, loadVars, selVars, currentDate, activeTab,
                   tenureVars, rateVars, courseRecord, ingestVars>>

NextCourseDetail == handleEmployeeClick \/ closeModal \/ clockAdvances

SpecCourseDetail == InitCourseDetail /\ [][NextCourseDetail]_vars

\* One raw row going through one of the ingestion paths
InitIngest ==
    /\ sourceRows = <<>>
    /\ parsedData = <<>>
    /\ data = <<>>
    /\ hasData = FALSE
    /\ isMerged = FALSE
    /\ selectedTenure = <<>>
    /\ selectedStore = <<>>
    /\ selectedAreaManager = <<>>
    /\ selectedTrainer = <<>>
    /\ selectedCourse = <<>>
    /\ selectedDesignation = <<>>
    /\ currentDate = EvalInstant
    /\ dateOfJoining = InvalidDate
    /\ tenure = NotClassified
    /\ activeTab = "overview"
    /\ RateIdle
    /\ DetailIdle
    /\ rawRow \in RawRows
    /\ ingested = [done |-> FALSE]
    /\ ServicesIdle

\* what is recorded of a row that went through a path
Ingested(path, reachesDashboard, kept, rec) ==
    [done |-> TRUE, path |-> path, toDashboard |-> reachesDashboard,
     kept |-> kept, record |-> rec]

\* App.loadCSVData: csvParse with the row mapper; every row is returned
loadCSVData_csvParse ==
    /\ ~ingested.done
    /\ ingested' = Ingested("loadCSVData", TRUE, TRUE, loadCSVData_row(rawRow))
    /\ UNCHANGED <<serviceVars, sourceRows, loadVars, selVars, currentDate, activeTab,
                   tenureVars, rateVars, detailVars, rawRow>>

\* App.handleAdminFileUpload: csvParse with the row mapper
handleAdminFileUpload_csvParse ==
    /\ ~ingested.done
    /\ ingested' = Ingested("handleAdminFileUpload", TRUE, TRUE,
                            handleAdminFileUpload_row(rawRow))
    /\ UNCHANGED <<serviceVars, sourceRows, loadVars, selVars, currentDate, activeTab,
                   tenureVars, rateVars, detailVars, rawRow>>

\* The sheet row through getTrainingData, the JSON response and
\* fetchTrainingDataFromSheets
fetchTrainingDataFromSheets_processedData ==
    /\ ~ingested.done
    /\ LET scriptRecord == getTrainingData_record(rawRow)
           response == [f \in DOMAIN scriptRecord |-> ThroughJSON(scriptRecord[f])]
       IN  ingested' = Ingested("fetchTrainingDataFromSheets", TRUE,
                                getTrainingData_keeps(scriptRecord),
                                fetchTrainingDataFromSheets_record(response))
    /\ UNCHANGED <<serviceVars, sourceRows, loadVars, selVars, currentDate, activeTab,
                   tenureVars, rateVars, detailVars, rawRow>>

\* App.autoLoadData, the data being a file downloaded by
\* DataPersistenceService.checkForUpdates: merged as parseCSV returns it
autoLoadData_checkForUpdates ==
    /\ ~ingested.done
    /\ ingested' = Ingested("autoLoadData/checkForUpdates", TRUE, TRUE,
                            parseCSV_row(rawRow))
    /\ UNCHANGED <<serviceVars, sourceRows, loadVars, selVars, currentDate, activeTab,
                   tenureVars, rateVars, detailVars, rawRow>>

\* App.autoLoadData, the data coming from fetchTrainingDataFromGitHub:
\* merged as parseCSVData returns it
autoLoadData_fetchTrainingDataFromGitHub ==
    /\ ~ingested.done
    /\ LET rec == parseCSVData_record(rawRow)
       IN  ingested' = Ingested("autoLoadData/fetchTrainingDataFromGitHub", TRUE,
                                parseCSVData_keeps(rec), rec)
    /\ UNCHANGED <<serviceVars, sourceRows, loadVars, selVars, currentDate, activeTab,
                   tenureVars, rateVars, detailVars, rawRow>>

\* validateTrainingData, on a record fetched from the sheet
validateTrainingData ==
    /\ ~ingested.done
    /\ ingested' = Ingested("validateTrainingData", FALSE,
                            validateTrainingData_keeps(rawRow),
                            validateTrainingData_record(rawRow))
    /\ UNCHANGED <<serviceVars, sourceRows, loadVars, selVars, currentDate, activeTab,
                   tenureVars, rateVars, detailVars, rawRow>>

NextIngest ==
    \/ loadCSVData_csvParse
    \/ handleAdminFileUpload_csvParse
    \/ fetchTrainingDataFromSheets_processedData
    \/ autoLoadData_checkForUpdates
    \/ autoLoadData_fetchTrainingDataFromGitHub
    \/ validateTrainingData

SpecIngest == InitIngest /\ [][NextIngest]_vars

\* One CSV text handed to one of the parsers
InitCsv ==
    /\ sourceRows = <<>>
    /\ parsedData = <<>>
    /\ data = <<>>
    /\ hasData = FALSE
    /\ isMerged = FALSE
    /\ selectedTenure = <<>>
    /\ selectedStore = <<>>
    /\ selectedAreaManager = <<>>
    /\ selectedTrainer = <<>>
    /\ selectedCourse = <<>>
    /\ selectedDesignation = <<>>
    /\ currentDate = EvalInstant
    /\ dateOfJoining = InvalidDate
    /\ tenure = NotClassified
    /\ activeTab = "overview"
    /\ RateIdle
    /\ DetailIdle
    /\ IngestIdle
    /\ csvText \in CsvTexts
    /\ parsed = [done |-> FALSE]
    /\ SortIdle
    /\ PersistIdle
    /\ SearchIdle
    /\ ShellIdle
    /\ FetchIdle

\* fetchTrainingDataFromGitHub: const data = parseCSVData(csvText)
fetchTrainingDataFromGitHub_parseCSVData ==
    /\ ~parsed.done
    /\ parsed' = parseCSVData(csvText)
    /\ UNCHANGED <<appVars, csvText, sortVars, persistVars, searchVars, shellVars, fetchVars>>

\* checkForUpdates: const data = this.parseCSV(csvText)
checkForUpdates_parseCSV ==
    /\ ~parsed.done
    /\ parsed' = parseCSV(csvText)
    /\ UNCHANGED <<appVars, csvText, sortVars, persistVars, searchVars, shellVars, fetchVars>>

\* App.loadCSVData: the text of the fetched file is checked and parsed; the
\* catch block leaves data as it was
loadCSVData_csvText ==
    /\ ~parsed.done
    /\ parsed' = loadCSVData_parsedData(csvText)
    /\ UNCHANGED <<appVars, csvText, sortVars, persistVars, searchVars, shellVars, fetchVars>>

NextCsv ==
    \/ fetchTrainingDataFromGitHub_parseCSVData
    \/ checkForUpdates_parseCSV
    \/ loadCSVData_csvText

SpecCsv == InitCsv /\ [][NextCsv]_vars

\* The employee dashboard over a loaded file: its search text, sort setting
\* and selections change, and every change re-runs the filteredEmployees memo
InitSort ==
    /\ \E kept \in (SUBSET (1..Len(ScenarioRows))) \ {{}} :
          LET f == SelectSeq([i \in 1..Len(ScenarioRows) |->
                                [at |-> i, row |-> ScenarioRows[i]]],
                            LAMBDA e : e.at \in kept)
          IN  sourceRows = [i \in 1..Len(f) |-> f[i].row]
    /\ parsedData = sourceRows
    /\ data = mergeWithStoreData(sourceRows)
    /\ hasData = TRUE
    /\ isMerged = TRUE
    /\ selectedTenure = <<>>
    /\ selectedStore = <<>>
    /\ selectedAreaManager = <<>>
    /\ selectedTrainer = <<>>
    /\ selectedCourse = <<>>
    /\ selectedDesignation = <<>>
    /\ currentDate = EvalInstant
    /\ dateOfJoining = InvalidDate
    /\ tenure = NotClassified
    /\ activeTab = "overview"
    /\ RateIdle
    /\ DetailIdle
    /\ IngestIdle
    /\ CsvIdle
    /\ SortIdle
    /\ PersistIdle
    /\ SearchIdle
    /\ ShellIdle
    /\ FetchIdle

\* the six selected-value arrays of the mounted dashboard
SelectedValues ==
    [tenure |-> selectedTenure, store |-> selectedStore,
     areaManager |-> selectedAreaManager, trainer |-> selectedTrainer,
     course |-> selectedCourse, designation |-> selectedDesignation]

SearchTexts == {"", "amy", "E1"}

\* TabbedDashboard: the employee tab is clicked and EmployeeDashboard renders
\* for the first time: the employeeData memo, then the filteredEmployees memo
EmployeeDashboard_mount ==
    /\ activeTab = "overview"
    /\ activeTab' = "employee"
    /\ NoSelection
    /\ searchEmployee' = ""
    /\ sortBy' = "name"
    /\ sortOrder' = "asc"
    /\ LET none == [dim \in Dimensions |-> <<>>]
           memo == EmployeeDashboard_employeeData
       IN  /\ filteredEmployees' = filteredEmployees_useMemo(memo, none, "", "name", "asc")
           /\ employeeData' = employeeData_afterSort(memo, none, "", "name", "asc")
    /\ UNCHANGED <<sourceRows, loadVars, currentDate, tenureVars, rateVars,
                   detailVars, ingestVars, csvVars, persistVars, searchVars, shellVars, fetchVars>>

\* the sort-by select: setSortBy, and the render that follows
setSortBy ==
    \E by \in {"name", "completion", "designation"} :
        /\ activeTab = "employee"
        /\ by # sortBy
        /\ sortBy' = by
        /\ filteredEmployees' = filteredEmployees_useMemo(
               employeeData, SelectedValues, searchEmployee, by, sortOrder)
        /\ employeeData' = employeeData_afterSort(
               employeeData, SelectedValues, searchEmployee, by, sortOrder)
        /\ UNCHANGED <<sourceRows, loadVars, selVars, currentDate, activeTab, tenureVars,
                       rateVars, detailVars, ingestVars, csvVars, persistVars, searchVars, shellVars, fetchVars, searchEmployee, sortOrder>>

\* the sort-order select: setSortOrder, and the render that follows
setSortOrder ==
    LET order == IF sortOrder = "asc" THEN "desc" ELSE "asc" IN
        /\ activeTab = "employee"
        /\ sortOrder' = order
        /\ filteredEmployees' = filteredEmployees_useMemo(
               employeeData, SelectedValues, searchEmployee, sortBy, order)
        /\ employeeData' = employeeData_afterSort(
               employeeData, SelectedValues, searchEmployee, sortBy, order)
        /\ UNCHANGED <<sourceRows, loadVars, selVars, currentDate, activeTab, tenureVars,
                       rateVars, detailVars, ingestVars, csvVars, persistVars, searchVars, shellVars, fetchVars, searchEmployee, sortBy>>

\* the search box: setSearchEmployee, and the render that follows
setSearchEmployee ==
    \E search \in SearchTexts :
        /\ activeTab = "employee"
        /\ search # searchEmployee
        /\ searchEmployee' = search
        /\ filteredEmployees' = filteredEmployees_useMemo(
               employeeData, SelectedValues, search, sortBy, sortOrder)
        /\ employeeData' = employeeData_afterSort(
               employeeData, SelectedValues, search, sortBy, sortOrder)
        /\ UNCHANGED <<sourceRows, loadVars, selVars, currentDate, activeTab, tenureVars,
                       rateVars, detailVars, ingestVars, csvVars, persistVars, searchVars, shellVars, fetchVars, sortBy, sortOrder>>

\* a click on an option of one of the six filters of the employee dashboard,
\* and the render that follows
EmployeeDashboard_handleOptionToggle ==
    \E dim \in Dimensions :
        \E option \in SelectableValues(dim) :
            LET selected == [SelectedValues EXCEPT ![dim] = Toggled(@, option)] IN
                /\ activeTab = "employee"
                /\ includes(Selected(dim), option) \/ TotalSelected < MaxSelected
                /\ selectedTenure' = selected.tenure
                /\ selectedStore' = selected.store
                /\ selectedAreaManager' = selected.areaManager
                /\ selectedTrainer' = selected.trainer
                /\ selectedCourse' = selected.course
                /\ selectedDesignation' = selected.designation
                /\ filteredEmployees' = filteredEmployees_useMemo(
                       employeeData, selected, searchEmployee, sortBy, sortOrder)
                /\ employeeData' = employeeData_afterSort(
                       employeeData, selected, searchEmployee, sortBy, sortOrder)
                /\ UNCHANGED <<sourceRows, loadVars, currentDate, activeTab, tenureVars,
                               rateVars, detailVars, ingestVars, csvVars, persistVars, searchVars, shellVars, fetchVars,
                               searchEmployee, sortBy, sortOrder>>

NextSort ==
    \/ EmployeeDashboard_mount
    \/ setSortBy
    \/ setSortOrder
    \/ setSearchEmployee
    \/ EmployeeDashboard_handleOptionToggle

SpecSort == InitSort /\ [][NextSort]_vars

\* The startup load of DataPersistenceService, for every answer of the
\* repository and of the local CSV fetch and everything localStorage can hold
Repositories ==
    [configured : BOOLEAN, listFails : BOOLEAN,
     files : {<<>>, <<"f1.csv">>, <<"f1.csv", "f2.csv">>},
     hasDownloadUrl : BOOLEAN, download : {"throws", "errorPage", "csv"}]

Storages ==
    {[lms_training_data |-> NoItem, lms_data_metadata |-> NoItem]}
    \cup {[lms_training_data |-> d, lms_data_metadata |-> Json(name)] :
            d \in {Corrupt, Json(<<>>), Json(SavedRows)},
            name \in {"f1.csv", "f2.csv", "Local CSV Data"}}

\* autoLoad.stored keeps what localStorage held when the load was started
InitAutoLoad ==
    /\ sourceRows = <<>>
    /\ parsedData = <<>>
    /\ data = <<>>
    /\ hasData = FALSE
    /\ isMerged = FALSE
    /\ selectedTenure = <<>>
    /\ selectedStore = <<>>
    /\ selectedAreaManager = <<>>
    /\ selectedTrainer = <<>>
    /\ selectedCourse = <<>>
    /\ selectedDesignation = <<>>
    /\ currentDate = EvalInstant
    /\ dateOfJoining = InvalidDate
    /\ tenure = NotClassified
    /\ activeTab = "overview"
    /\ RateIdle
    /\ DetailIdle
    /\ IngestIdle
    /\ CsvIdle
    /\ SortIdle
    /\ SearchIdle
    /\ ShellIdle
    /\ FetchIdle
    /\ github \in Repositories
    /\ localCSV \in {"throws", "records"}
    /\ localStorage \in Storages
    /\ autoLoad = [at |-> "checkForUpdates", stored |-> localStorage]

autoLoadData_returns(rows, source) ==
    [at |-> "done", stored |-> autoLoad.stored, data |-> rows, source |-> source]

\* autoLoadData: "First try GitHub updates if configured"
autoLoadData_tryGitHub ==
    /\ autoLoad.at = "checkForUpdates"
    /\ LET updateResult == checkForUpdates(github, localStorage)
       IN  /\ localStorage' = updateResult.storage
           /\ autoLoad' = IF updateResult.hasUpdates
                          THEN autoLoadData_returns(Data(updateResult.data), "github")
                          ELSE [autoLoad EXCEPT !.at = "localCSV"]
    /\ UNCHANGED <<appVars, csvVars, sortVars, searchVars, shellVars, fetchVars, github, localCSV>>

\* autoLoadData: "If no GitHub updates, try local CSV file as fallback"
autoLoadData_tryLocalCSV ==
    /\ autoLoad.at = "localCSV"
    /\ IF localCSV = "records"
       THEN /\ localStorage' = saveData(LocalRows, "Local CSV Data")
            /\ autoLoad' = autoLoadData_returns(Data(LocalRows), "localCSV")
       ELSE /\ autoLoad' = [autoLoad EXCEPT !.at = "loadData"]
            /\ UNCHANGED localStorage
    /\ UNCHANGED <<appVars, csvVars, sortVars, searchVars, shellVars, fetchVars, github, localCSV>>

\* autoLoadData: "Final fallback to localStorage"
autoLoadData_loadData ==
    /\ autoLoad.at = "loadData"
    /\ LET loaded == loadData(localStorage).data
       IN  autoLoad' = IF ~loaded.isNull /\ Len(loaded.value) > 0
                       THEN autoLoadData_returns(loaded, "localStorage")
                       ELSE autoLoadData_returns(NullData, "none")
    /\ UNCHANGED <<appVars, csvVars, sortVars, searchVars, shellVars, fetchVars, github, localCSV, localStorage>>

NextAutoLoad ==
    \/ autoLoadData_tryGitHub
    \/ autoLoadData_tryLocalCSV
    \/ autoLoadData_loadData

SpecAutoLoad == InitAutoLoad /\ [][NextAutoLoad]_vars

\* One call of fetchTrainingDataFromGitHub
InitFetch ==
    /\ sourceRows = <<>>
    /\ parsedData = <<>>
    /\ data = <<>>
    /\ hasData = FALSE
    /\ isMerged = FALSE
    /\ selectedTenure = <<>>
    /\ selectedStore = <<>>
    /\ selectedAreaManager = <<>>
    /\ selectedTrainer = <<>>
    /\ selectedCourse = <<>>
    /\ selectedDesignation = <<>>
    /\ currentDate = EvalInstant
    /\ dateOfJoining = InvalidDate
    /\ tenure = NotClassified
    /\ activeTab = "overview"
    /\ RateIdle
    /\ DetailIdle
    /\ IngestIdle
    /\ CsvIdle
    /\ SortIdle
    /\ PersistIdle
    /\ SearchIdle
    /\ ShellIdle
    /\ \E sources \in DataSourceLists :
          fetchRun = [status |-> "fetching", dataSources |-> sources, source |-> 1,
                      attempt |-> 1, lastError |-> "", attempts |-> <<>>,
                      data |-> <<>>]

\* `await fetch` resolves with an ok response: the abort timer is cleared and
\* the body is awaited
fetch_resolves ==
    /\ fetchRun.status = "fetching"
    /\ fetchRun' = [fetchRun EXCEPT !.status = "readingText"]
    /\ UNCHANGED <<appVars, csvVars, sortVars, persistVars, searchVars, shellVars>>

\* `await fetch` rejects (at the latest when the timer aborts the request) or
\* resolves with a response that is not ok
fetch_fails ==
    \E thrown \in RequestErrors :
        /\ fetchRun.status = "fetching"
        /\ fetchRun' = afterCatch(fetchRun, thrown)
        /\ UNCHANGED <<appVars, csvVars, sortVars, persistVars, searchVars, shellVars>>

\* `await response.text()` resolves
text_resolves ==
    \E text \in ResponseTexts :
        /\ fetchRun.status = "readingText"
        /\ fetchRun' = afterText(fetchRun, text)
        /\ UNCHANGED <<appVars, csvVars, sortVars, persistVars, searchVars, shellVars>>

\* `await response.text()` rejects: the connection breaks while the body is read
text_rejects ==
    /\ fetchRun.status = "readingText"
    /\ fetchRun' = afterCatch(fetchRun, "request failed")
    /\ UNCHANGED <<appVars, csvVars, sortVars, persistVars, searchVars, shellVars>>

\* the timer of RETRY_DELAY fires and the inner loop goes on
retryDelay_elapses ==
    /\ fetchRun.status = "retryDelay"
    /\ fetchRun' = [fetchRun EXCEPT !.status = "fetching", !.attempt = @ + 1]
    /\ UNCHANGED <<appVars, csvVars, sortVars, persistVars, searchVars, shellVars>>

NextFetch ==
    \/ fetch_resolves
    \/ fetch_fails
    \/ text_resolves
    \/ text_rejects
    \/ retryDelay_elapses

SpecFetch == InitFetch /\ [][NextFetch]_vars

\* What the code schedules: the timer of TIMEOUT aborts a request that has not
\* answered, and the timer of RETRY_DELAY ends the wait. Nothing bounds the
\* reading of the body, the timer being cleared before it.
SpecFetchFair ==
    /\ SpecFetch
    /\ WF_vars(fetch_resolves \/ fetch_fails)
    /\ WF_vars(retryDelay_elapses)

\* The same with a server that always finishes the body it has begun
SpecFetchBodySettles ==
    /\ SpecFetchFair
    /\ WF_vars(text_resolves \/ text_rejects)

\* App with its header, the admin modal and the admin panel
AdminKeysAtStart ==
    {NoAdminKeys,
     [adminSession |-> "authenticated", adminSessionExpiry |-> OtherText],
     [adminSession |-> "authenticated", adminSessionExpiry |-> NoKey]}
    \cup {[adminSession |-> "authenticated", adminSessionExpiry |-> InstantKey(ms)] :
             ms \in 0..SessionLength}

InitShell ==
    /\ sourceRows = ScenarioRows
    /\ parsedData = <<>>
    /\ data = <<>>
    /\ hasData = FALSE
    /\ isMerged = FALSE
    /\ selectedTenure = <<>>
    /\ selectedStore = <<>>
    /\ selectedAreaManager = <<>>
    /\ selectedTrainer = <<>>
    /\ selectedCourse = <<>>
    /\ selectedDesignation = <<>>
    /\ currentDate = EvalInstant
    /\ dateOfJoining = InvalidDate
    /\ tenure = NotClassified
    /\ activeTab = "overview"
    /\ RateIdle
    /\ DetailIdle
    /\ IngestIdle
    /\ CsvIdle
    /\ SortIdle
    /\ PersistIdle
    /\ SearchIdle
    /\ FetchIdle
    /\ isLoading = TRUE
    /\ loadsInFlight = <<>>
    /\ loadsStarted = 0
    /\ theme \in {"light", "dark"}
    /\ error = ""
    /\ dataSource = "none"
    /\ fileName = "Local CSV Data"
    /\ isAdmin = FALSE
    /\ showAdminPanel = FALSE
    /\ adminKeys \in AdminKeysAtStart
    /\ dateNow = 0
    /\ submits = <<>>

\* the effect of [theme]: the theme is applied and saved, checkAdminSession
\* runs, and autoLoadData runs up to its first await
App_useEffect ==
    LET checked == checkAdminSession(adminKeys, dateNow, isAdmin)
    IN  /\ isAdmin' = checked.isAdmin
        /\ adminKeys' = checked.adminKeys
        /\ isLoading' = TRUE
        /\ error' = ""
        /\ loadsInFlight' = Append(loadsInFlight, "autoLoadData")
        /\ loadsStarted' = loadsStarted + 1

\* the first render of App and its effect
App_mount ==
    /\ loadsStarted = 0
    /\ App_useEffect
    /\ UNCHANGED <<appVars, csvVars, sortVars, persistVars, searchVars, fetchVars, theme,
                   dataSource, fileName, showAdminPanel, dateNow, submits>>

\* ThemeToggle: setTheme, and the effect of [theme] after the render
toggleTheme ==
    /\ loadsStarted > 0
    /\ loadsStarted < MaxLoads
    /\ theme' = (IF theme = "light" THEN "dark" ELSE "light")
    /\ App_useEffect
    /\ UNCHANGED <<appVars, csvVars, sortVars, persistVars, searchVars, fetchVars,
                   dataSource, fileName, showAdminPanel, dateNow, submits>>

\* the Reload button (disabled while isLoading) and Try Again (rendered while
\* not isLoading): loadCSVData up to its first await
handleReload ==
    /\ loadsStarted > 0
    /\ loadsStarted < MaxLoads
    /\ ~isLoading
    /\ isLoading' = TRUE
    /\ error' = ""
    /\ loadsInFlight' = Append(loadsInFlight, "loadCSVData")
    /\ loadsStarted' = loadsStarted + 1
    /\ UNCHANGED <<appVars, csvVars, sortVars, persistVars, searchVars, fetchVars, theme,
                   dataSource, fileName, isAdmin, showAdminPanel, adminKeys,
                   dateNow, submits>>

\* what dataPersistenceService.autoLoadData resolves with (it catches what
\* its steps throw, so the catch block of App.autoLoadData is not entered)
AutoLoadResults ==
    {[rows |-> ScenarioRows, source |-> "github", fileName |-> "f1.csv"],
     [rows |-> ScenarioRows, source |-> "localStorage", fileName |-> Undef],
     [rows |-> <<>>, source |-> "none", fileName |-> Undef]}

\* App.autoLoadData from its await to the end of its finally block
autoLoadData_continues ==
    \E i \in 1..Len(loadsInFlight), result \in AutoLoadResults :
        /\ loadsInFlight[i] = "autoLoadData"
        /\ IF Len(result.rows) > 0
           THEN /\ parsedData' = result.rows
                /\ data' = mergeWithStoreData(result.rows)
                /\ hasData' = TRUE
                /\ isMerged' = TRUE
                /\ dataSource' = result.source
                /\ fileName' = (IF result.fileName # Undef THEN result.fileName
                                ELSE IF result.source = "github" THEN "GitHub CSV Data"
                                ELSE "Local CSV Data")
                /\ error' = ""
           ELSE /\ parsedData' = <<>>
                /\ data' = <<>>
                /\ hasData' = FALSE
                /\ dataSource' = "none"
                /\ fileName' = "No Data"
                /\ UNCHANGED <<isMerged, error>>
        /\ loadsInFlight' = RemoveAt(loadsInFlight, i)
        /\ isLoading' = FALSE
        /\ UNCHANGED <<sourceRows, selVars, currentDate, activeTab, tenureVars,
                       rateVars, detailVars, ingestVars, csvVars, sortVars,
                       persistVars, searchVars, fetchVars, loadsStarted, theme, isAdmin,
                       showAdminPanel, adminKeys, dateNow, submits>>

\* App.loadCSVData from its first await to the end of its finally block: the
\* file has or has not a 'Store ID' column, or a step throws
loadCSVData_continues ==
    \E i \in 1..Len(loadsInFlight), outcome \in {"merged", "unmerged", "throws"} :
        /\ loadsInFlight[i] = "loadCSVData"
        /\ IF outcome = "merged"
           THEN /\ parsedData' = sourceRows
                /\ data' = loadCSVData_mergedData(sourceRows)
                /\ isMerged' = TRUE
                /\ hasData' = TRUE
                /\ UNCHANGED error
           ELSE IF outcome = "unmerged"
           THEN /\ parsedData' = WithoutStoreId(sourceRows)
                /\ data' = WithoutStoreId(sourceRows)
                /\ isMerged' = FALSE
                /\ hasData' = TRUE
                /\ UNCHANGED error
           ELSE /\ error' = "Error loading data"
                /\ UNCHANGED loadVars
        /\ loadsInFlight' = RemoveAt(loadsInFlight, i)
        /\ isLoading' = FALSE
        /\ UNCHANGED <<sourceRows, selVars, currentDate, activeTab, tenureVars,
                       rateVars, detailVars, ingestVars, csvVars, sortVars,
                       persistVars, searchVars, fetchVars, loadsStarted, theme, dataSource,
                       fileName, isAdmin, showAdminPanel, adminKeys, dateNow,
                       submits>>

\* twelve hours pass
dateNow_advances ==
    /\ dateNow < MaxNow
    /\ dateNow' = dateNow + 1
    /\ UNCHANGED <<appVars, csvVars, sortVars, persistVars, searchVars, fetchVars, isLoading,
                   loadsInFlight, loadsStarted, theme, error, dataSource,
                   fileName, isAdmin, showAdminPanel, adminKeys, submits>>

\* the Admin access and Admin panel buttons of the header
setShowAdminPanel_true ==
    /\ loadsStarted > 0
    /\ ~showAdminPanel
    /\ showAdminPanel' = TRUE
    /\ UNCHANGED <<appVars, csvVars, sortVars, persistVars, searchVars, fetchVars, isLoading,
                   loadsInFlight, loadsStarted, theme, error, dataSource,
                   fileName, isAdmin, adminKeys, dateNow, submits>>

\* AdminLogin is rendered in the modal
AdminLoginRendered == showAdminPanel /\ ~isAdmin

\* AdminPanel, with its upload, is rendered
AdminPanelRendered == showAdminPanel /\ isAdmin

\* AdminLogin.handleSubmit up to its await. The button is disabled while the
\* run of this mounting waits; closing and reopening the modal mounts anew.
AdminLogin_handleSubmit ==
    \E password \in Passwords :
        /\ AdminLoginRendered
        /\ Len(submits) < MaxSubmits
        /\ submits' = Append(submits, password)
        /\ UNCHANGED <<appVars, csvVars, sortVars, persistVars, searchVars, fetchVars, isLoading,
                       loadsInFlight, loadsStarted, theme, error, dataSource,
                       fileName, isAdmin, showAdminPanel, adminKeys, dateNow>>

\* AdminLogin.handleSubmit after its delay: onLogin(true) and the two keys
\* for the right password, an error message of its own otherwise
AdminLogin_handleSubmit_continues ==
    \E i \in 1..Len(submits) :
        /\ IF submits[i] = ADMIN_PASSWORD
           THEN /\ isAdmin' = TRUE
                /\ adminKeys' = StoredSession(dateNow)
           ELSE UNCHANGED <<isAdmin, adminKeys>>
        /\ submits' = RemoveAt(submits, i)
        /\ UNCHANGED <<appVars, csvVars, sortVars, persistVars, searchVars, fetchVars, isLoading,
                       loadsInFlight, loadsStarted, theme, error, dataSource,
                       fileName, showAdminPanel, dateNow>>

\* the close button of the modal
AdminLogin_onClose ==
    /\ AdminLoginRendered
    /\ showAdminPanel' = FALSE
    /\ UNCHANGED <<appVars, csvVars, sortVars, persistVars, searchVars, fetchVars, isLoading,
                   loadsInFlight, loadsStarted, theme, error, dataSource,
                   fileName, isAdmin, adminKeys, dateNow, submits>>

\* App.handleAdminLogout, the Logout button of AdminPanel
handleAdminLogout ==
    /\ AdminPanelRendered
    /\ adminKeys' = NoAdminKeys
    /\ isAdmin' = FALSE
    /\ showAdminPanel' = FALSE
    /\ UNCHANGED <<appVars, csvVars, sortVars, persistVars, searchVars, fetchVars, isLoading,
                   loadsInFlight, loadsStarted, theme, error, dataSource,
                   fileName, dateNow, submits>>

NextShell ==
    \/ App_mount
    \/ toggleTheme
    \/ handleReload
    \/ autoLoadData_continues
    \/ loadCSVData_continues
    \/ dateNow_advances
    \/ setShowAdminPanel_true
    \/ AdminLogin_handleSubmit
    \/ AdminLogin_handleSubmit_continues
    \/ AdminLogin_onClose
    \/ handleAdminLogout

SpecShell == InitShell /\ [][NextShell]_vars

\* The effect runs after the first render, and every awaited promise of a
\* load settles.
SpecShellFair ==
    /\ SpecShell
    /\ WF_vars(App_mount)
    /\ WF_vars(autoLoadData_continues)
    /\ WF_vars(loadCSVData_continues)

\* The store and designation filters of Dashboard, over merged data
SearchableFilters == {"store", "designation"}

StoreSearchTexts == {"", "a", "B", "zz"}
DesignationSearchTexts == {"", "a", "K"}

\* the options prop of the filter, as rendered
ListedOptions(filter) ==
    IF filter = "store" THEN Dashboard_uniqueStores(storeSearch)
    ELSE Dashboard_uniqueDesignations(designationSearch)

InitMultiSelect ==
    /\ sourceRows = ScenarioRows
    /\ parsedData = sourceRows
    /\ data = mergeWithStoreData(sourceRows)
    /\ hasData = TRUE
    /\ isMerged = TRUE
    /\ selectedTenure = <<>>
    /\ selectedStore = <<>>
    /\ selectedAreaManager = <<>>
    /\ selectedTrainer = <<>>
    /\ selectedCourse = <<>>
    /\ selectedDesignation = <<>>
    /\ currentDate = EvalInstant
    /\ dateOfJoining = InvalidDate
    /\ tenure = NotClassified
    /\ activeTab = "overview"
    /\ RateIdle
    /\ DetailIdle
    /\ IngestIdle
    /\ CsvIdle
    /\ SortIdle
    /\ PersistIdle
    /\ FetchIdle
    /\ ShellIdle
    /\ storeSearch = ""
    /\ designationSearch = ""

\* typing into the search field of the store filter
setStoreSearch ==
    \E text \in StoreSearchTexts :
        /\ storeSearch' = text
        /\ UNCHANGED <<appVars, csvVars, sortVars, persistVars, fetchVars, shellVars,
                       designationSearch>>

\* typing into the search field of the designation filter
setDesignationSearch ==
    \E text \in DesignationSearchTexts :
        /\ designationSearch' = text
        /\ UNCHANGED <<appVars, csvVars, sortVars, persistVars, fetchVars, shellVars,
                       storeSearch>>

\* onSelectionChange of the filter: setSelectedStore or setSelectedDesignation
onSelectionChange(filter, values) ==
    /\ selectedStore' = (IF filter = "store" THEN values ELSE selectedStore)
    /\ selectedDesignation' =
          (IF filter = "designation" THEN values ELSE selectedDesignation)
    /\ UNCHANGED <<sourceRows, loadVars, selectedTenure, selectedAreaManager,
                   selectedTrainer, selectedCourse, currentDate, activeTab,
                   tenureVars, rateVars, detailVars, ingestVars, serviceVars>>

\* a click on one of the listed options
MultiSelectFilter_handleOptionToggle ==
    \E filter \in SearchableFilters :
        \E k \in 1..Len(ListedOptions(filter)) :
            onSelectionChange(filter, Toggled(Selected(filter), ListedOptions(filter)[k]))

\* a click on the Select All control, rendered while options are listed
MultiSelectFilter_handleSelectAll ==
    \E filter \in SearchableFilters :
        /\ Len(ListedOptions(filter)) > 0
        /\ onSelectionChange(filter, handleSelectAll(Selected(filter), ListedOptions(filter)))

NextMultiSelect ==
    \/ setStoreSearch
    \/ setDesignationSearch
    \/ MultiSelectFilter_handleOptionToggle
    \/ MultiSelectFilter_handleSelectAll

SpecMultiSelect == InitMultiSelect /\ [][NextMultiSelect]_vars

Next ==
    \/ autoLoadData
    \/ loadCSVData
    \/ loadCSVData_fails
    \/ handleAdminFileUpload
    \/ fetchTrainingDataFromSheets
    \/ handleOptionToggle
    \/ clearAllFilters

Spec == Init /\ [][Next]_vars

-----------------------------------------------------------------------------
(* Properties of the filter *)

\* The tenure bucket of a joining instant, from the whole days elapsed.
ElapsedDays(now, doj) ==
    IF now.ms >= doj.ms THEN now.day - doj.day ELSE now.day - doj.day - 1

BucketOfDays(k) ==
    IF k <= 4 THEN "1-4 days"
    ELSE IF k <= 15 THEN "5-15 days"
    ELSE IF k <= 30 THEN "16-30 days"
    ELSE "over a month"

BucketOf(now, doj) ==
    IF doj.nan THEN "over a month" ELSE BucketOfDays(ElapsedDays(now, doj))

\* The value a record has for a dimension: its tenure bucket; the location,
\* area manager or trainer the merge gave it (none that can be selected when
\* it has none; "Unknown" for every record of data that was not merged); its
\* course and designation, a blank one read as "Unknown".
ValueFor(dim, r) ==
    CASE dim = "tenure" -> BucketOf(currentDate, r.date_of_joining)
      [] dim = "store" -> IF isMerged THEN r.location ELSE "Unknown"
      [] dim = "areaManager" -> IF isMerged THEN r.AM ELSE "Unknown"
      [] dim = "trainer" -> IF isMerged THEN r.Trainer ELSE "Unknown"
      [] dim = "course" -> IF Falsy(r.course_name) THEN "Unknown" ELSE r.course_name
      [] dim = "designation" -> IF Falsy(r.designation) THEN "Unknown" ELSE r.designation

SatisfiesSelection(r) ==
    \A dim \in Dimensions :
        Selected(dim) # <<>> => ValueFor(dim, r) \in Range(Selected(dim))

\* out is the subsequence of seq made of the elements at the indices in kept
IsSubsequenceAt(out, seq, kept) ==
    /\ Len(out) = Cardinality(kept)
    /\ \A j \in 1..Len(out) :
         \E i \in kept :
            /\ Cardinality({k \in kept : k < i}) = j - 1
            /\ out[j] = seq[i]

\* C1: the filter keeps exactly the records that, for every dimension with a
\* non-empty selection, have their value for that dimension among the selected
\* values (OR within a dimension, AND across dimensions), in input order.
C1_FilterIsAndOfOrs ==
    IsSubsequenceAt(filteredData, data,
                    {i \in 1..Len(data) : SatisfiesSelection(data[i])})

\* A merged file of two clerks, one of them in the selected store, with a
\* store and a designation selected: the other clerk is filtered out.
C1_Witness ==
    /\ isMerged
    /\ Len(selectedStore) = 1
    /\ Len(selectedDesignation) = 1
    /\ Len(data) = 2
    /\ Len(filteredData) = 1
    /\ \A i \in 1..2 : includes(selectedDesignation, data[i].designation)

\* C2: with all six selections empty the filter returns the input list itself,
\* merged or not.
C2_EmptySelectionIsIdentity ==
    TotalSelected = 0 => filteredData = data

C2_Witness ==
    /\ TotalSelected = 0
    /\ ~isMerged
    /\ Len(data) = 2
    /\ filteredData = data
    /\ data[1] # data[2]

\* The records without a value for a dimension. Every record has a tenure
\* bucket; a record that is not merged has no store, area manager or trainer.
HasNoValueFor(dim, r) ==
    CASE dim = "tenure" -> FALSE
      [] dim = "store" -> Falsy(r.location)
      [] dim = "areaManager" -> Falsy(r.AM)
      [] dim = "trainer" -> Falsy(r.Trainer)
      [] dim = "course" -> Falsy(r.course_name)
      [] dim = "designation" -> Falsy(r.designation)

OnlyUnknownSelected(dim) ==
    /\ Selected(dim) = <<"Unknown">>
    /\ \A other \in Dimensions \ {dim} : Selected(other) = <<>>

-----------------------------------------------------------------------------
(* Properties of the directory merge *)

EmployeeFields(r) ==
    <<r.employee_code, r.employee_name, r.department, r.designation, r.course_name,
      r.course_completion_status, r.date_of_joining, r.StoreID>>

HasDirectoryEntry(r) ==
    \E i \in 1..Len(storeMappingData) : storeMappingData[i].StoreID = r.StoreID

\* C4: the merge is a positional left join: as many records out as rows in,
\* record i carrying the employee and course fields of row i.
C4_MergeIsPositionalLeftJoin ==
    /\ Len(data) = Len(parsedData)
    /\ \A i \in 1..Len(parsedData) :
         EmployeeFields(data[i]) = EmployeeFields(parsedData[i])

\* A merged file of two rows, the first with a directory entry, the second
\* without one.
C4_Witness ==
    /\ isMerged
    /\ Len(parsedData) = 2
    /\ Len(data) = 2
    /\ HasDirectoryEntry(parsedData[1])
    /\ data[1].Region = "North"
    /\ ~HasDirectoryEntry(parsedData[2])

\* C5: after the merge a record whose Store ID is absent or has no directory
\* entry carries the string "Unknown" in each of its four directory fields.
C5_UnmatchedFieldsAreUnknown ==
    isMerged =>
        \A i \in 1..Len(data) :
            ~HasDirectoryEntry(data[i]) =>
                /\ data[i].location = "Unknown"
                /\ data[i].Region = "Unknown"
                /\ data[i].AM = "Unknown"
                /\ data[i].Trainer = "Unknown"

-----------------------------------------------------------------------------
(* Properties of the tenure classifier *)

AllLabelsAre(label) ==
    /\ tenure.labels.Dashboard = label
    /\ tenure.labels.EmployeeDashboard = label
    /\ tenure.labels.TenureCompletionChart = label
    /\ tenure.labels.TenureDistributionChart = label
    /\ tenure.labels.FilterSection = label
    /\ tenure.labels.CompactFilter = label

\* C6: with daysDiff the whole days elapsed since joining, every copy of the
\* classifier returns "1-4 days" for daysDiff <= 4, "5-15 days" for 5..15,
\* "16-30 days" for 16..30 and "over a month" from 31 on, and always one of
\* the four labels.
C6_TenureBoundaries ==
    tenure.classified =>
        /\ \E label \in TenureOptions : AllLabelsAre(label)
        /\ ~dateOfJoining.nan =>
             LET daysDiff == ElapsedDays(currentDate, dateOfJoining)
             IN  /\ daysDiff <= 4 => AllLabelsAre("1-4 days")
                 /\ (5 <= daysDiff /\ daysDiff <= 15) => AllLabelsAre("5-15 days")
                 /\ (16 <= daysDiff /\ daysDiff <= 30) => AllLabelsAre("16-30 days")
                 /\ daysDiff >= 31 => AllLabelsAre("over a month")

\* Joined exactly 4 days before the evaluation instant, to the millisecond.
C6_Witness ==
    /\ tenure.classified
    /\ ~dateOfJoining.nan
    /\ currentDate.day - dateOfJoining.day = 4
    /\ currentDate.ms = dateOfJoining.ms
    /\ AllLabelsAre("1-4 days")

HasUnparseableDate(r) == r.date_of_joining.nan

CountWhere(seq, P(_)) == Cardinality({i \in 1..Len(seq) : P(seq[i])})

TotalOf(acc, k) == IF HasKey(acc, k) THEN acc[IndexOfKey(acc, k)].total ELSE 0

\* C7: a record whose joining date cannot be parsed is classified "over a
\* month", is counted in that bucket by the tenure aggregation and is kept by a
\* tenure filter that selects "over a month".
C7_UnparseableDateIsOverAMonth ==
    LET records == filteredData
        overAMonth == TotalOf(TenureCompletionChart_tenureData, "over a month")
    IN  /\ \A i \in 1..Len(data) :
             HasUnparseableDate(data[i]) =>
                /\ Dashboard_calculateTenure(data[i].date_of_joining, currentDate)
                     = "over a month"
                /\ TenureCompletionChart_calculateTenure(data[i].date_of_joining,
                                                         currentDate) = "over a month"
        /\ (/\ includes(selectedTenure, "over a month")
            /\ \A dim \in Dimensions \ {"tenure"} : Selected(dim) = <<>>)
             => CountWhere(records, HasUnparseableDate)
                  = CountWhere(data, HasUnparseableDate)
        /\ overAMonth
             = CountWhere(records,
                          LAMBDA r : BucketOf(currentDate, r.date_of_joining)
                                       = "over a month")
        /\ overAMonth >= CountWhere(records, HasUnparseableDate)

\* Only "over a month" selected; the one record with an unparseable date is
\* kept and counted.
C7_Witness ==
    /\ selectedTenure = <<"over a month">>
    /\ TotalSelected = 1
    /\ CountWhere(data, HasUnparseableDate) = 1
    /\ CountWhere(filteredData, HasUnparseableDate) = 1
    /\ TotalOf(TenureCompletionChart_tenureData, "over a month") >= 1

-----------------------------------------------------------------------------
(* Properties of the aggregations *)

GroupingDimensions ==
    {"region", "trainer", "areaManager", "store", "course", "department",
     "designation", "tenure", "tenureDistribution"}

TenureGroupings == {"tenure", "tenureDistribution"}

Defaulted(v, d) == IF Falsy(v) THEN d ELSE v

\* The one key a filtered record has under a grouping
GroupingKey(g, r) ==
    CASE g = "region" -> Defaulted(r.Region, "Unknown")
      [] g = "trainer" -> Defaulted(r.Trainer, "Unknown")
      [] g = "areaManager" -> Defaulted(r.AM, "Unknown")
      [] g = "store" -> Defaulted(r.location, "Unknown")
      [] g = "course" -> Defaulted(r.course_name, "N/A")
      [] g = "department" -> Defaulted(r.department, "N/A")
      [] g = "designation" -> Defaulted(r.designation, "Unknown")
      [] g \in TenureGroupings -> BucketOf(currentDate, r.date_of_joining)

Buckets(g) ==
    CASE g = "region" -> RegionCompletionChart_regionData
      [] g = "trainer" -> TrainerCompletionChart_trainerData
      [] g = "areaManager" -> AreaManagerCompletionChart_amData
      [] g = "store" -> StoreCompletionChart_storeData
      [] g = "course" -> CourseCompletionChart_courseData
      [] g = "department" -> DepartmentCompletionChart_departmentData
      [] g = "designation" -> DesignationCompletionChart_designationStats
      [] g = "tenure" -> TenureCompletionChart_tenureData
      [] g = "tenureDistribution" -> TenureDistributionChart_tenureData

OutputList(g) ==
    CASE g = "region" -> RegionCompletionChart_chartData
      [] g = "trainer" -> TrainerCompletionChart_chartData
      [] g = "areaManager" -> AreaManagerCompletionChart_chartData
      [] g = "store" -> StoreCompletionChart_chartData
      [] g = "course" -> CourseCompletionChart_chartData
      [] g = "department" -> DepartmentCompletionChart_chartData
      [] g = "designation" -> DesignationCompletionChart_chartData
      [] g = "tenure" -> TenureCompletionChart_chartData
      [] g = "tenureDistribution" -> TenureDistributionChart_chartData

\* indices of the records that have key k under grouping g
RecordsWithKey(records, g, k) ==
    {i \in 1..Len(records) : GroupingKey(g, records[i]) = k}

CompletedWithKey(records, g, k) ==
    {i \in RecordsWithKey(records, g, k) :
        records[i].course_completion_status = "Completed"}

\* rate = completed / total * 100, as an exact fraction
IsRateOf(rate, completed, total) ==
    ~rate.nan /\ rate.den > 0 /\ rate.num * total = completed * 100 * rate.den

RateInRange(rate) ==
    ~rate.nan /\ rate.den > 0 /\ 0 <= rate.num /\ rate.num <= 100 * rate.den

\* C8: for a non-empty record list and every grouping, each bucket's total is
\* the number of records with its key, its completed the number of those that
\* are Completed, completed <= total, and the rate shown for it is
\* completed / total * 100 and lies in 0..100.
C8_BucketCountsAndRateRange ==
    LET records == filteredData
    IN  records # <<>> =>
          \A g \in GroupingDimensions :
            LET buckets == Buckets(g)
                out == OutputList(g)
            IN  /\ Len(out) = Len(buckets)
                /\ \A i \in 1..Len(buckets) :
                     LET b == buckets[i]
                     IN  /\ b.total = Cardinality(RecordsWithKey(records, g, b.name))
                         /\ b.completed
                              = Cardinality(CompletedWithKey(records, g, b.name))
                         /\ b.completed <= b.total
                         /\ \E j \in 1..Len(out) :
                              /\ out[j].name = b.name
                              /\ IsRateOf(out[j].rate, b.completed, b.total)
                              /\ RateInRange(out[j].rate)

\* Two records of one department, one of them completed: a bucket at 50%.
C8_Witness ==
    /\ Len(filteredData) = 2
    /\ Len(DepartmentCompletionChart_departmentData) = 1
    /\ DepartmentCompletionChart_departmentData[1].total = 2
    /\ DepartmentCompletionChart_departmentData[1].completed = 1
    /\ IsRateOf(DepartmentCompletionChart_chartData[1].rate, 1, 2)

RECURSIVE SumOfTotals(_)
SumOfTotals(buckets) ==
    IF buckets = <<>> THEN 0
    ELSE Head(buckets).total + SumOfTotals(Tail(buckets))

\* C9: for every selection and every grouping that gives each record one key,
\* the bucket totals add up to the number of filtered records.
C9_TotalsSumToFilteredCount ==
    LET records == filteredData
    IN  \A g \in GroupingDimensions :
          LET buckets == Buckets(g)
          IN  /\ SumOfTotals(buckets) = Len(records)
              /\ \A i \in 1..Len(records) :
                   HasKey(buckets, GroupingKey(g, records[i]))

\* A selection is active, a record was filtered out, and the one left has an
\* unparseable joining date and no department.
C9_Witness ==
    /\ TotalSelected >= 1
    /\ Len(data) = 2
    /\ Len(filteredData) = 1
    /\ HasUnparseableDate(filteredData[1])
    /\ Falsy(filteredData[1].department)
    /\ SumOfTotals(TenureCompletionChart_tenureData) = 1

\* position in the input of the first record with key k
FirstSeen(records, g, k) ==
    LET withKey == RecordsWithKey(records, g, k)
    IN  CHOOSE i \in withKey : \A j \in withKey : i <= j

SameRate(a, b) == ~a.nan /\ ~b.nan /\ a.num * b.den = b.num * a.den

NonIncreasingByRate(out) ==
    \A i, j \in 1..Len(out) :
        i < j => /\ ~out[i].rate.nan
                 /\ ~out[j].rate.nan
                 /\ out[i].rate.num * out[j].rate.den
                      >= out[j].rate.num * out[i].rate.den

\* C10 as stated: for every grouping, tenure included, the output list is
\* non-increasing by rate and buckets of equal rate are in first-seen order.
C10_SortedByRateTiesFirstSeen ==
    LET records == filteredData
    IN  \A g \in GroupingDimensions :
          LET out == OutputList(g)
          IN  /\ NonIncreasingByRate(out)
              /\ \A i, j \in 1..Len(out) :
                   (i < j /\ SameRate(out[i].rate, out[j].rate))
                      => FirstSeen(records, g, out[i].name)
                           < FirstSeen(records, g, out[j].name)

\* The order in which the properties of the accumulator object are listed:
\* names that are array indices first, in ascending numeric order, then the
\* other names in the order they were first seen.
ListedBefore(records, g, a, b) ==
    IF IsArrayIndex(a) /\ IsArrayIndex(b) THEN ArrayIndexValue(a) < ArrayIndexValue(b)
    ELSE IF IsArrayIndex(a) # IsArrayIndex(b) THEN IsArrayIndex(a)
    ELSE FirstSeen(records, g, a) < FirstSeen(records, g, b)

TenureBucketRank(name) ==
    CASE name = "1-4 days" -> 1
      [] name = "5-15 days" -> 2
      [] name = "16-30 days" -> 3
      [] name = "over a month" -> 4

\* C10, amended: the lists of the seven groupings other than tenure are
\* non-increasing by rate, with buckets of equal rate in the order the
\* accumulator lists its keys (first-seen, except that integer-like keys come
\* first in ascending order); the two tenure lists are in the fixed order of
\* the tenure buckets, whatever the rates.
C10_SortedByRateExceptTenure ==
    LET records == filteredData
    IN  /\ \A g \in GroupingDimensions \ TenureGroupings :
             LET out == OutputList(g)
             IN  /\ NonIncreasingByRate(out)
                 /\ \A i, j \in 1..Len(out) :
                      (i < j /\ SameRate(out[i].rate, out[j].rate))
                         => ListedBefore(records, g, out[i].name, out[j].name)
        /\ \A g \in TenureGroupings :
             LET out == OutputList(g)
             IN  \A i, j \in 1..Len(out) :
                    i < j => TenureBucketRank(out[i].name)
                               < TenureBucketRank(out[j].name)

\* The region seen second has the higher rate and is listed first, while the
\* tenure list of the same records goes from the lower rate to the higher.
C10_Witness ==
    /\ Len(RegionCompletionChart_chartData) = 2
    /\ FirstSeen(filteredData, "region", RegionCompletionChart_chartData[1].name) = 2
    /\ RateLess(RegionCompletionChart_chartData[2].rate,
                RegionCompletionChart_chartData[1].rate)
    /\ Len(TenureCompletionChart_chartData) = 2
    /\ RateLess(TenureCompletionChart_chartData[1].rate,
                TenureCompletionChart_chartData[2].rate)

-----------------------------------------------------------------------------
(* Properties of the rate computations *)

IsFiniteRate(rate) == ~rate.nan

ChartRateNames ==
    {"Region", "Trainer", "AreaManager", "Store", "Course", "Department",
     "Designation", "Tenure", "TenureDistribution", "CompletionRateCard"}

IsNearestInteger(r, completed, total) ==
    /\ 2 * r * total - total <= 200 * completed
    /\ 200 * completed < 2 * r * total + total

-----------------------------------------------------------------------------
(* Properties of the employee rollups *)

\* the rollup list of the mounted dashboard, as [code, total, completed,
\* rate, courses]
MountedRollup ==
    IF activeTab = "overview"
    THEN LET list == Dashboard_employeeCompletionRates
         IN  [i \in 1..Len(list) |->
                [code |-> list[i].employee_code,
                 total |-> list[i].total_courses,
                 completed |-> list[i].completed_courses,
                 rate |-> list[i].completion_rate,
                 courses |-> list[i].courses]]
    ELSE LET list == EmployeeDashboard_filteredEmployees
         IN  [i \in 1..Len(list) |->
                [code |-> list[i].employee_code,
                 total |-> list[i].totalCourses,
                 completed |-> list[i].completedCourses,
                 rate |-> list[i].completionRate,
                 courses |-> list[i].courses]]

\* one entry per distinct employee code of the records, its total the number
\* of the records with that code
IsRollupOf(rollup, records) ==
    /\ \A i, j \in 1..Len(rollup) : rollup[i].code = rollup[j].code => i = j
    /\ {rollup[i].code : i \in 1..Len(rollup)}
         = {records[i].employee_code : i \in 1..Len(records)}
    /\ \A i \in 1..Len(rollup) :
         rollup[i].total
           = Cardinality({j \in 1..Len(records) :
                              records[j].employee_code = rollup[i].code})

\* C12: for every selection the rollup of the mounted dashboard, overview or
\* employee, has exactly one entry per distinct employee code of the filtered
\* records, and the entry's total is the number of filtered records with
\* that code.
C12_RollupOfFilteredRecords ==
    LET records == filteredData
    IN  IsRollupOf(MountedRollup, records)

AsRollup(list) ==
    [i \in 1..Len(list) |->
        [code |-> list[i].employee_code, total |-> list[i].totalCourses,
         completed |-> list[i].completedCourses, rate |-> list[i].completionRate,
         courses |-> list[i].courses]]

WellCounted(rollup) ==
    \A i \in 1..Len(rollup) :
        /\ rollup[i].completed <= rollup[i].total
        /\ Len(rollup[i].courses) = rollup[i].total

\* C13: every rollup entry has completedCourses <= totalCourses and a course
\* list as long as totalCourses: in the overview's rollup, and in the
\* employee dashboard's rollup before and after its filter.
C13_CompletedAtMostTotalAndCoursesCounted ==
    /\ activeTab = "overview" => WellCounted(MountedRollup)
    /\ activeTab = "employee" =>
          /\ WellCounted(AsRollup(EmployeeDashboard_employeeData))
          /\ WellCounted(MountedRollup)

\* the overview's rollup holds an employee with two records, one completed
C13_Witness ==
    /\ activeTab = "overview"
    /\ \E i \in 1..Len(MountedRollup) :
          /\ MountedRollup[i].total = 2
          /\ MountedRollup[i].completed = 1
          /\ Len(MountedRollup[i].courses) = 2

InExactlyOneTier(isHigh, isAverage, isLow) ==
    /\ isHigh \/ isAverage \/ isLow
    /\ ~(isHigh /\ isAverage)
    /\ ~(isHigh /\ isLow)
    /\ ~(isAverage /\ isLow)

\* C15: the three tier filters partition the rollups: an entry is kept by
\* exactly one of them, by high when its rate is at least 80, by average
\* when it is at least 60 and below 80, by needsAttention when it is below
\* 60; so the three lists together hold every entry once.
C15_TiersPartitionTheRollups ==
    /\ InExactlyOneTier(Dashboard_isHighPerformer(completion_rate.Dashboard),
                        Dashboard_isAveragePerformer(completion_rate.Dashboard),
                        Dashboard_isNeedsAttention(completion_rate.Dashboard))
    /\ Dashboard_isHighPerformer(completion_rate.Dashboard)
          <=> completion_rate.Dashboard.val >= 80
    /\ Dashboard_isNeedsAttention(completion_rate.Dashboard)
          <=> completion_rate.Dashboard.val < 60
    /\ InExactlyOneTier(
          EmployeeDashboard_isHighPerformer(completion_rate.EmployeeDashboard),
          EmployeeDashboard_isAveragePerformer(completion_rate.EmployeeDashboard),
          EmployeeDashboard_isNeedsAttention(completion_rate.EmployeeDashboard))
    /\ EmployeeDashboard_isHighPerformer(completion_rate.EmployeeDashboard)
          <=> completion_rate.EmployeeDashboard.val >= 80
    /\ EmployeeDashboard_isNeedsAttention(completion_rate.EmployeeDashboard)
          <=> completion_rate.EmployeeDashboard.val < 60

\* three of five records completed: the rate is 60, the lower edge of average
C15_Witness ==
    /\ counts = [total |-> 5, completed |-> 3]
    /\ completion_rate.Dashboard = Num(60)
    /\ Dashboard_isAveragePerformer(completion_rate.Dashboard)
    /\ EmployeeDashboard_isAveragePerformer(completion_rate.EmployeeDashboard)

\* the scenario: the three rows loaded and merged against a directory that
\* holds S1 only, nothing selected, the overview mounted
ScenarioLoaded ==
    /\ parsedData = ScenarioRows
    /\ isMerged
    /\ \A i \in 1..Len(data) : data[i].Region # "South"
    /\ TotalSelected = 0
    /\ activeTab = "overview"

RateIs(rate, n) == ~rate.nan /\ rate.num = n * rate.den

CodesOf(list) == {list[i].employee_code : i \in 1..Len(list)}

\* C17: for the three records (E1 Clerk Completed S1), (E1 Clerk Not
\* Completed S1), (E2 Lead Completed S2) merged against a directory mapping
\* only S1 to North, the region buckets are exactly North (2, 1, 50) and
\* Unknown (1, 1, 100), the rollup of E1 has rate 50, E1 is in
\* needsAttention and E2 is in high.
C17_ScenarioAggregates ==
    ScenarioLoaded =>
        LET buckets == RegionCompletionChart_regionData
            chart == RegionCompletionChart_chartData
            rollup == Dashboard_employeeCompletionRates
        IN  /\ {buckets[i] : i \in 1..Len(buckets)}
                 = { [name |-> "North", total |-> 2, completed |-> 1],
                     [name |-> "Unknown", total |-> 1, completed |-> 1] }
            /\ Len(buckets) = 2
            /\ Len(chart) = 2
            /\ \E i \in 1..2 : chart[i].name = "North" /\ RateIs(chart[i].rate, 50)
            /\ \E i \in 1..2 : chart[i].name = "Unknown" /\ RateIs(chart[i].rate, 100)
            /\ \E i \in 1..Len(rollup) :
                  /\ rollup[i].employee_code = "E1"
                  /\ rollup[i].completion_rate = Num(50)
            /\ CodesOf(Dashboard_needsAttention) = {"E1"}
            /\ CodesOf(Dashboard_highPerformers) = {"E2"}
            /\ CodesOf(Dashboard_averagePerformers) = {}

C17_Witness ==
    /\ ScenarioLoaded
    /\ Len(data) = 3
    /\ data[1].Region = "North"
    /\ data[3].Region = Undef
    /\ Len(RegionCompletionChart_chartData) = 2

-----------------------------------------------------------------------------
(* Properties of the course detail *)

\* C16: in the course detail list a course is Overdue exactly when its
\* completion status is not Completed and its end date is strictly before
\* the evaluation instant; a course neither completed nor past its end date
\* is In Progress; a Completed course is Completed whatever its end date.
C16_OverdueIffNotCompletedAndPastEnd ==
    selectedEmployeeDetail.isModalOpen =>
        LET detail == selectedEmployeeDetail.courseDetail
            now == selectedEmployeeDetail.evaluatedAt
            isCompleted == courseRecord.course_completion_status = "Completed"
            pastEnd == DateLess(courseRecord.course_end_date, now)
        IN  /\ detail.status = "Overdue" <=> (~isCompleted /\ pastEnd)
            /\ detail.isOverdue <=> (~isCompleted /\ pastEnd)
            /\ (~isCompleted /\ ~pastEnd) => detail.status = "In Progress"
            /\ isCompleted => detail.status = "Completed"

-----------------------------------------------------------------------------
(* Properties of the ingestion paths *)

\* C18: on every ingestion path that feeds the dashboard, a record's status
\* is 'Completed' exactly when the raw value is the string "Completed", and
\* 'Not Completed' for every other raw value.
C18_StatusIsExactMatch ==
    (ingested.done /\ ingested.toDashboard /\ ingested.kept) =>
        ingested.record.course_completion_status
          = IF rawRow.course_completion_status = Str("Completed")
            THEN Str("Completed") ELSE Str("Not Completed")

IsFiniteNumber(v) == v.type = "number" /\ ~v.nan

\* C19: after normalization completion hours and progress are finite
\* numbers: 0 for an absent, empty or unparseable raw value, the parsed
\* number otherwise, progress being parsed without its percent sign.
C19_HoursAndProgressAreFinite ==
    (ingested.done /\ ingested.toDashboard /\ ingested.kept) =>
        /\ IsFiniteNumber(ingested.record.course_completion_hours)
        /\ IsFiniteNumber(ingested.record.course_progress)
        /\ rawRow.course_completion_hours \in {Undefined, Str(""), Str("abc")}
              => ingested.record.course_completion_hours = JsNumber(0)
        /\ rawRow.course_progress \in {Undefined, Str(""), Str("abc")}
              => ingested.record.course_progress = JsNumber(0)
        /\ rawRow.course_progress \in {Str("50%"), Str("50")}
              => ingested.record.course_progress = JsNumber(50)

\* C20: on every ingestion path a raw row is left out exactly when its
\* employee code or its employee name is absent or empty.
C20_ExcludedIffNoCodeOrName ==
    ingested.done =>
        (~ingested.kept <=>
            \/ rawRow.employee_code \in {Undefined, Str("")}
            \/ rawRow.employee_name \in {Undefined, Str("")})

-----------------------------------------------------------------------------
(* Properties of the empty input *)

\* a data line that has both required fields
IsValidLine(line) ==
    /\ line.employee_code.type = "string" /\ trim(line.employee_code.str) # ""
    /\ line.employee_name.type = "string" /\ trim(line.employee_name.str) # ""

HasNoValidRow(lines) == \A i \in 2..Len(lines) : ~IsValidLine(lines[i])

\* every stage after the parse, over the empty record list
EmptyThroughTheStages ==
    /\ mergeWithStoreData(<<>>) = <<>>
    /\ loadCSVData_mergedData(<<>>) = <<>>
    /\ Sheets_mergedData(<<>>, storeMappingData) = <<>>
    /\ filteredData = <<>>
    /\ \A g \in GroupingDimensions : OutputList(g) = <<>>
    /\ Dashboard_employeeCompletionRates = <<>>
    /\ EmployeeDashboard_employeeData = <<>>
    /\ CompletionRateCard_safeCompletionRate(0, Len(filteredData)) = ZeroRate

\* C21: an input with zero valid rows is normalised to the empty record list
\* without an error, and merging, filtering, aggregating and rolling up the
\* empty list give the empty list and the overall rate 0.
C21_EmptyInputGivesEmptyResult ==
    /\ (parsed.done /\ HasNoValidRow(csvText)) =>
          (~parsed.threw /\ parsed.records = <<>>)
    /\ data = <<>> => EmptyThroughTheStages

-----------------------------------------------------------------------------
(* Properties of the employee list *)

\* C22: computing the filtered and sorted employee list, for any selection,
\* search text and sort setting, leaves the per-employee rollup list and the
\* raw record list as they were: same elements, same order.
C22_UpstreamListsAreNotModified ==
    [][(activeTab = "employee" /\ activeTab' = "employee") =>
          (employeeData' = employeeData /\ data' = data)]_vars

-----------------------------------------------------------------------------
(* Properties of the insight summary *)

\* the summary list of a grouping dimension
SummaryList(g) ==
    CASE g = "department" -> create_summary.departmentPerformance
      [] g = "region" -> create_summary.regionPerformance
      [] g = "trainer" -> create_summary.trainerEffectiveness
      [] g = "areaManager" -> create_summary.areaManagerPerformance

SummaryDimensions ==
    IF isMerged THEN {"department", "region", "trainer", "areaManager"}
    ELSE {"department"}

\* the bucket the aggregation of dimension g keeps for the records that an
\* entry of the summary counts
BucketOfEntry(g, entry) ==
    CHOOSE k \in 1..Len(Buckets(g)) : Buckets(g)[k].name = entry.name

SummaryIsTheAggregation(g) ==
    LET list == SummaryList(g)
        buckets == Buckets(g)
        rateOf(k) == RateOf(buckets[k].completed, buckets[k].total)
    IN  /\ Len(list) = Len(buckets)
        /\ \A k \in 1..Len(buckets) :
              \E p \in 1..Len(list) :
                 /\ list[p].total = buckets[k].total
                 /\ list[p].completionRate = toFixed1Percent(rateOf(k))
        /\ \A p, q \in 1..Len(list) :
              (p < q /\ \A e \in {p, q} : \E k \in 1..Len(buckets) :
                                             buckets[k].name = list[e].name)
              => ~RateLess(rateOf(BucketOfEntry(g, list[p])),
                           rateOf(BucketOfEntry(g, list[q])))

\* C23: for department, region, trainer and area manager the insight summary
\* has one entry per aggregation bucket over the same records, the bucket of
\* the blank values included, each with the bucket's total and rate, in
\* non-increasing numeric order of rate.
C23_SummaryIsTheAggregation ==
    (hasData /\ Len(filteredData) > 0) =>
        \A g \in SummaryDimensions : SummaryIsTheAggregation(g)

-----------------------------------------------------------------------------
(* Properties relating the rollup to the record counts *)

RECURSIVE SumOfField(_, _, _)
SumOfField(list, field, n) ==
    IF n = 0 THEN 0 ELSE SumOfField(list, field, n - 1) + list[n][field]

CompletedRecords(records) ==
    {i \in 1..Len(records) : records[i].course_completion_status = "Completed"}

-----------------------------------------------------------------------------
(* Properties of the "Unknown" bucket *)

UnknownGroupings ==
    {"course", "designation", "department", "store", "trainer", "areaManager", "region"}

\* the groupings that have a filter
FilteredGroupings == UnknownGroupings \cap Dimensions

\* the value a record is grouped by is missing or blank
IsBlankFor(g, r) ==
    CASE g = "department" -> Falsy(r.department)
      [] g = "region" -> Falsy(r.Region)
      [] OTHER -> HasNoValueFor(g, r)

\* the total of the bucket "Unknown" of a grouping, 0 when it has none
UnknownTotal(g) ==
    LET unknown == {k \in 1..Len(Buckets(g)) : Buckets(g)[k].name = "Unknown"}
    IN  IF unknown = {} THEN 0 ELSE Buckets(g)[CHOOSE k \in unknown : TRUE].total

BlankIsCountedAsUnknown(g) ==
    UnknownTotal(g)
      = Cardinality({i \in 1..Len(filteredData) : IsBlankFor(g, filteredData[i])})

UnknownFilterIsUnknownBucket(dim) ==
    OnlyUnknownSelected(dim) =>
        IsSubsequenceAt(filteredData, data,
                        {i \in 1..Len(data) : GroupingKey(dim, data[i]) = "Unknown"})

\* C25: in each of course, designation, department, store, trainer, area
\* manager and region the records with a missing or blank grouping value are
\* counted in the bucket "Unknown", and selecting "Unknown" in the filter of a
\* dimension keeps exactly the records the aggregation by that dimension
\* counts in its bucket "Unknown".
C25_BlankIsTheUnknownBucket ==
    hasData =>
        /\ \A g \in UnknownGroupings : BlankIsCountedAsUnknown(g)
        /\ \A dim \in FilteredGroupings : UnknownFilterIsUnknownBucket(dim)

-----------------------------------------------------------------------------
(* Properties of the startup load *)

\* GitHub is not configured, lists no files, or fails
GitHubUnavailable ==
    \/ ~github.configured
    \/ github.listFails
    \/ github.files = <<>>
    \/ github.download \in {"throws", "errorPage"}

HeldSavedDataset(storage) ==
    /\ storage.lms_training_data.kind = "json"
    /\ storage.lms_training_data.value # <<>>
    /\ storage.lms_data_metadata.kind = "json"

\* C26: when GitHub is not configured, lists no files or fails, the local CSV
\* fetch fails as well and localStorage held a non-empty saved dataset when
\* the load started, autoLoadData returns that dataset with source
\* 'localStorage', not null with source 'none'.
C26_FallsBackToLocalStorage ==
    (/\ autoLoad.at = "done"
     /\ GitHubUnavailable
     /\ localCSV = "throws"
     /\ HeldSavedDataset(autoLoad.stored))
    => /\ autoLoad.source = "localStorage"
       /\ autoLoad.data = Data(autoLoad.stored.lms_training_data.value)

-----------------------------------------------------------------------------
(* Properties of the fetch with retries *)

\* the attempts made are the first ones of the list (source 1, attempt 1),
\* (source 1, attempt 2), ..., and none follows a successful one
AttemptsInOrder ==
    LET made == fetchRun.attempts
    IN  /\ Len(made) <= MAX_RETRIES * Len(fetchRun.dataSources)
        /\ \A k \in 1..Len(made) :
              /\ made[k].source = fetchRun.dataSources[((k - 1) \div MAX_RETRIES) + 1]
              /\ made[k].attempt = ((k - 1) % MAX_RETRIES) + 1
              /\ made[k].attempt <= MAX_RETRIES
              /\ k < Len(made) => made[k].error # ""

FetchOutcomeIsRight ==
    LET made == fetchRun.attempts
    IN  /\ fetchRun.status = "returned" =>
              (Len(made) > 0 /\ made[Len(made)].error = "")
        /\ fetchRun.status = "thrown" =>
              /\ Len(made) = MAX_RETRIES * Len(fetchRun.dataSources)
              /\ \A k \in 1..Len(made) : made[k].error # ""
        /\ fetchRun.status \in {"fetching", "readingText", "retryDelay"} =>
              \A k \in 1..Len(made) : made[k].error # ""

FetchHasEnded == fetchRun.status \in {"returned", "thrown"}

FetchRetriesInOrder ==
    fetchRun.status # "idle" => (AttemptsInOrder /\ FetchOutcomeIsRight)

\* C27: fetchTrainingDataFromGitHub tries the sources in order with at most
\* MAX_RETRIES attempts each, returns at the first successful attempt, throws
\* only after every attempt on every source has failed, and always ends.
C27_FetchRetriesInOrderAndEnds ==
    /\ []FetchRetriesInOrder
    /\ <>FetchHasEnded

-----------------------------------------------------------------------------
(* Properties of App: the loading flag *)

\* some run of autoLoadData or loadCSVData has started and not yet finished
LoadInFlight == Len(loadsInFlight) > 0

LoadingWhileInFlight == LoadInFlight => isLoading

\* C28: isLoading is true whenever a load is in flight, for every
\* interleaving of the runs started on mount, by theme toggles and by Reload,
\* and every load eventually sets isLoading back to false.
C28_IsLoadingWhileALoadIsInFlight ==
    /\ []LoadingWhileInFlight
    /\ [](LoadInFlight => <>(~isLoading))

\* every load eventually sets isLoading to false
LoadsEnd == LoadInFlight ~> ~isLoading

-----------------------------------------------------------------------------
(* Properties of App: the admin session *)

\* a run of handleSubmit with the right password is waiting for its delay
RightPasswordSubmitted == \E i \in 1..Len(submits) : submits[i] = ADMIN_PASSWORD

\* localStorage holds a session that has not expired
SessionIsValid ==
    /\ adminKeys.adminSession = "authenticated"
    /\ adminKeys.adminSessionExpiry.kind = "digits"
    /\ dateNow < adminKeys.adminSessionExpiry.ms

\* localStorage holds a session whose expiry has passed
SessionHasExpired ==
    /\ adminKeys.adminSession = "authenticated"
    /\ adminKeys.adminSessionExpiry.kind = "digits"
    /\ dateNow >= adminKeys.adminSessionExpiry.ms

\* the step runs checkAdminSession: the effect of [theme] has run
ChecksSession ==
    \/ loadsStarted = 0 /\ loadsStarted' = 1
    \/ theme' # theme

\* the step is the login of a run of handleSubmit with the right password
LogsIn ==
    /\ RightPasswordSubmitted
    /\ Len(submits') = Len(submits) - 1
    /\ adminKeys' = StoredSession(dateNow)

\* the step is handleAdminLogout
LogsOut == AdminPanelRendered /\ ~showAdminPanel' /\ submits' = submits

BecomesAdminOnlyByLoginOrValidSession ==
    (~isAdmin /\ isAdmin') => (LogsIn \/ (ChecksSession /\ SessionIsValid))

ExpiredSessionIsRemoved ==
    (ChecksSession /\ SessionHasExpired) => (adminKeys' = NoAdminKeys /\ ~isAdmin')

LogoutClearsTheSession ==
    LogsOut => (adminKeys' = NoAdminKeys /\ ~isAdmin' /\ ~showAdminPanel')

\* C29: AdminPanel is rendered only if isAdmin; isAdmin becomes true only by
\* a login with the right password (which stores an expiry 24 hours ahead) or
\* by checkAdminSession finding an authenticated session strictly before its
\* expiry; a check finding the expiry passed removes both keys and sets
\* isAdmin false; logout removes both keys and sets isAdmin and
\* showAdminPanel false.
C29_AdminOnlyByLoginOrValidSession ==
    /\ [](AdminPanelRendered => isAdmin)
    /\ [][BecomesAdminOnlyByLoginOrValidSession]_vars
    /\ [][ExpiredSessionIsRemoved]_vars
    /\ [][LogoutClearsTheSession]_vars

\* twelve hours after the start a login with the right password has stored
\* its session, and the admin panel is rendered
C29_Witness ==
    /\ AdminPanelRendered
    /\ dateNow = 1
    /\ adminKeys = StoredSession(1)

-----------------------------------------------------------------------------
(* Properties of MultiSelectFilter *)

\* how often the value occurs in the array
Occurrences(values, v) == Cardinality({k \in 1..Len(values) : values[k] = v})

\* toggling a listed option adds it if absent, removes it if present, leaves
\* the other values as they are and makes no duplicate
ToggleIsRight(filter) ==
    LET selectedValues == Selected(filter)
        options == ListedOptions(filter)
    IN  \A k \in 1..Len(options) :
            LET toggled == Toggled(selectedValues, options[k])
            IN  /\ includes(selectedValues, options[k]) <=> ~includes(toggled, options[k])
                /\ \A v \in (Range(selectedValues) \cup Range(toggled)) \ {options[k]} :
                      Occurrences(toggled, v) = Occurrences(selectedValues, v)
                /\ \A v \in Range(toggled) : Occurrences(toggled, v) = 1

\* every listed option is among the selected values
AllListedSelected(filter) ==
    \A k \in 1..Len(ListedOptions(filter)) :
        includes(Selected(filter), ListedOptions(filter)[k])

\* Select All clears exactly when every listed option is selected, and
\* otherwise gives a selection with every listed option
SelectAllIsRight(filter) ==
    LET result == handleSelectAll(Selected(filter), ListedOptions(filter))
    IN  Len(ListedOptions(filter)) > 0 =>
            /\ result = <<>> <=> AllListedSelected(filter)
            /\ ~AllListedSelected(filter) =>
                  \A k \in 1..Len(ListedOptions(filter)) :
                      includes(result, ListedOptions(filter)[k])

\* C30: for any selection and any listed option list, a toggle adds an absent
\* option and removes a present one without touching the others or making
\* duplicates, and Select All clears the selection if and only if every
\* listed option is selected, otherwise selecting every listed option.
C30_ToggleAndSelectAll ==
    \A filter \in SearchableFilters :
        ToggleIsRight(filter) /\ SelectAllIsRight(filter)

\* the toggle half on its own
ToggleIsRightEverywhere == \A filter \in SearchableFilters : ToggleIsRight(filter)

\* the Select All half while no search text narrows the options
SelectAllIsRightWithoutSearch ==
    (storeSearch = "" /\ designationSearch = "") =>
        \A filter \in SearchableFilters : SelectAllIsRight(filter)

====
